---- MODULE Spec2Model ----
(***************************************************************************)
(* Model of the book ingestion pipeline of the bookstore worker:          *)
(* IngestionService (ingest / approve / reject), MetadataService (fetch,   *)
(* merge, pricing), StorageService (cover upload), DatabaseService (books  *)
(* table, FTS index, list / search) and the admin / public route handlers. *)
(* Every await of a handler is a step boundary: requests run as            *)
(* interleaved tasks over the shared store, as on the worker runtime.      *)
(***************************************************************************)
EXTENDS Integers, Sequences, FiniteSets, TLC

\* ---------------------------------------------------------------- bounds
MaxBooks == 2     \* rows the books table may hold in a run
MaxReq == 2       \* request tasks in flight at once
MaxCostPrice == 40  \* largest cost price in pence the pricing rule is applied to on its own
MaxClock == 2     \* distinct timestamps getCurrentTimestamp() can return

\* ------------------------------------------------------- JS value helpers
\* undefined / null / SQL NULL of a text value
None == "<undefined>"
\* NULL of a timestamp column (timestamps are 1..MaxClock)
NoTime == 0
\* "no book id" (ids are 1..MaxBooks)
NoId == 0

\* JS truthiness of an optional string
Truthy(s) == s # None /\ s # ""
\* a || b on optional strings
Or(a, b) == IF Truthy(a) THEN a ELSE b
\* obj?.field on a record that may lack the field
Get(obj, f) == IF f \in DOMAIN obj THEN obj[f] ELSE None
\* obj?.field for a numeric field (undefined and 0 are both falsy)
GetNum(obj, f) == IF f \in DOMAIN obj THEN obj[f] ELSE 0

LowerLetters == "abcdefghijklmnopqrstuvwxyz"
UpperLetters == "ABCDEFGHIJKLMNOPQRSTUVWXYZ"
DigitChars == {"0", "1", "2", "3", "4", "5", "6", "7", "8", "9"}

CharAt(s, i) == SubSeq(s, i, i)

LowerSet == {CharAt(LowerLetters, i) : i \in 1..26}
UpperSet == {CharAt(UpperLetters, i) : i \in 1..26}

\* the upper-case form of each lower-case letter, and the reverse
upperOf == [c \in LowerSet |-> CharAt(UpperLetters, CHOOSE i \in 1..26 : CharAt(LowerLetters, i) = c)]
lowerOf == [c \in UpperSet |-> CharAt(LowerLetters, CHOOSE i \in 1..26 : CharAt(UpperLetters, i) = c)]

toUpperChar(c) == IF c \in LowerSet THEN upperOf[c] ELSE c
toLowerChar(c) == IF c \in UpperSet THEN lowerOf[c] ELSE c

RECURSIVE toUpperCase(_)
toUpperCase(s) ==
  IF Len(s) = 0 THEN ""
  ELSE toUpperChar(CharAt(s, 1)) \o toUpperCase(SubSeq(s, 2, Len(s)))

\* ------------------------------------------------------------ helpers.ts
\* isbn.replace(/[^0-9X]/gi, ''): keeps digits and x / X, drops the rest
IsbnChars == DigitChars \cup {"X", "x"}

RECURSIVE stripNonISBN(_)
stripNonISBN(s) ==
  IF Len(s) = 0 THEN ""
  ELSE LET c == CharAt(s, 1)
           rest == stripNonISBN(SubSeq(s, 2, Len(s)))
       IN IF c \in IsbnChars THEN c \o rest ELSE rest

normalizeISBN(isbn) == toUpperCase(stripNonISBN(isbn))

\* a validation that accepts 13 characters only; the validation property
\* C26 is checked to notice the difference
isValidISBNThirteenOnly(isbn) == Len(normalizeISBN(isbn)) = 13

isValidISBN(isbn) ==
  LET normalized == normalizeISBN(isbn)
  IN Len(normalized) = 10 \/ Len(normalized) = 13

\* Money inputs arrive in pounds; a pound amount is held as a whole number
\* of mills (1/1000 pound) so that fractions of a penny can be expressed.
MillsPerPound == 1000

\* Math.round(pounds * 100), pounds given in mills: floor(mills / 10 + 0.5)
poundsToPence(mills) == (mills + 5) \div 10

\* --------------------------------------------- metadata.ts: pricing rule
RECURSIVE Pow2Floor(_)
\* the largest power of two that is <= n (n >= 1)
Pow2Floor(n) == IF n < 2 THEN 1 ELSE 2 * Pow2Floor(n \div 2)

\* multipliers that rate an acceptable copy above a like-new one; the
\* monotonicity property C37 is checked to notice the difference
conditionMultiplierReversed(condition) ==
  CASE condition = "like_new" -> [tenths |-> 8, err5 |-> 1]
    [] condition = "very_good" -> [tenths |-> 10, err5 |-> 0]
    [] condition = "good" -> [tenths |-> 11, err5 |-> 2]
    [] condition = "acceptable" -> [tenths |-> 12, err5 |-> -1]
    [] OTHER -> [tenths |-> 10, err5 |-> 0]

\* The condition multipliers as IEEE doubles: tenths is the decimal value
\* times 10, err5 the double's distance from it in fifths of 2^-52
\* (1.2 is stored 0.2 * 2^-52 low, 1.1 is 0.4 * 2^-52 high, 0.8 is
\* 0.2 * 2^-52 high, 1.0 is exact).
conditionMultiplier(condition) ==
  CASE condition = "like_new" -> [tenths |-> 12, err5 |-> -1]
    [] condition = "very_good" -> [tenths |-> 11, err5 |-> 2]
    [] condition = "good" -> [tenths |-> 10, err5 |-> 0]
    [] condition = "acceptable" -> [tenths |-> 8, err5 |-> 1]
    [] OTHER -> [tenths |-> 10, err5 |-> 0]

\* Math.ceil(x * m) in double arithmetic, x a whole number. When the decimal
\* product is not whole the double product lies strictly between the same two
\* integers. When it is a whole number N, the double product is N unless the
\* multiplier's representation error, scaled by x, exceeds half an ulp of N
\* (ties round to even, which is N): then it is the next double above N.
ceilMul(x, m) ==
  LET num == x * m.tenths
      N == num \div 10
  IN IF num % 10 # 0 THEN N + 1
     ELSE IF N >= 1 /\ 2 * x * m.err5 > 5 * Pow2Floor(N) THEN N + 1
     ELSE N

BaseMarkup == 3

\* Math.round((Math.ceil(costPrice * 3.0 * mult) - 0.01) * 100)
calculateSuggestedPrice(costPrice, condition) ==
  LET calculated == ceilMul(costPrice * BaseMarkup, conditionMultiplier(condition))
  IN calculated * 100 - 1

\* ------------------------------------------- metadata.ts: MetadataService
\* null: a provider result without data (obj?.field is undefined on it)
Null == << >>
\* undefined of a list-valued field
NoList == <<None>>

Min(a, b) == IF a < b THEN a ELSE b

RECURSIVE join(_, _)
\* Array.prototype.join
join(list, sep) ==
  IF Len(list) = 0 THEN ""
  ELSE IF Len(list) = 1 THEN list[1]
  ELSE list[1] \o sep \o join(Tail(list), sep)

\* ol.authors.map(a => a.name)
authorNames(authors) == [i \in 1..Len(authors) |-> authors[i].name]

extractAuthor(gb, ol) ==
  IF "authors" \in DOMAIN gb /\ Len(gb.authors) > 0 THEN join(gb.authors, ", ")
  ELSE IF "authors" \in DOMAIN ol /\ Len(ol.authors) > 0
       THEN join(authorNames(ol.authors), ", ")
  ELSE "Unknown Author"

extractCoverUrl(gb, ol) ==
  IF Truthy(Get(gb, "cover_url")) THEN gb.cover_url
  ELSE IF Truthy(Get(ol, "cover_url")) THEN ol.cover_url
  ELSE None

SubjectCap == 5

\* a merge that prefers Open Library's title, author, description and cover;
\* the precedence property C10 is checked to notice the difference
mergeMetadataPreferOpenLibrary(external) ==
  LET ol == external.open_library
      gb == external.google_books
  IN [title |-> Or(Get(ol, "title"), Or(Get(gb, "title"), "Unknown Title")),
      author |-> IF "authors" \in DOMAIN ol /\ Len(ol.authors) > 0
                 THEN join(authorNames(ol.authors), ", ")
                 ELSE IF "authors" \in DOMAIN gb /\ Len(gb.authors) > 0
                      THEN join(gb.authors, ", ")
                 ELSE "Unknown Author",
      description |-> Or(Get(ol, "description"), Get(gb, "description")),
      cover_url |-> extractCoverUrl(ol, gb),
      metadata |-> << >>]

mergeMetadata(external) ==
  LET ol == external.open_library
      gb == external.google_books
  IN [title |-> Or(Get(gb, "title"), Or(Get(ol, "title"), "Unknown Title")),
      author |-> extractAuthor(gb, ol),
      description |-> Or(Get(gb, "description"), Get(ol, "description")),
      cover_url |-> extractCoverUrl(gb, ol),
      metadata |->
        [publisher |-> Or(Get(gb, "publisher"),
                          IF "publishers" \in DOMAIN ol /\ Len(ol.publishers) > 0
                          THEN ol.publishers[1] ELSE None),
         publish_date |-> Or(Get(gb, "publishedDate"), Get(ol, "publish_date")),
         page_count |-> IF GetNum(gb, "pageCount") # 0 THEN gb.pageCount
                        ELSE GetNum(ol, "number_of_pages"),
         language |-> "en",
         categories |-> IF "categories" \in DOMAIN gb THEN gb.categories
                        ELSE IF "subjects" \in DOMAIN ol
                             THEN SubSeq(ol.subjects, 1, Min(SubjectCap, Len(ol.subjects)))
                        ELSE NoList,
         isbn_13 |-> None,
         average_rating |-> GetNum(gb, "averageRating"),
         ratings_count |-> GetNum(gb, "ratingsCount")]]

\* What a provider lookup can come to: the API has the book, does not have
\* it, or the call fails (network error, non-2xx status, malformed body).
ProviderOutcomes == {"data", "notfound", "failure"}

\* fetchOpenLibrary / fetchGoogleBooks: every failure is caught and turned
\* into null, so the promise always fulfils.
fetchOpenLibrary(outcome, data) == IF outcome = "data" THEN data ELSE Null
fetchGoogleBooks(outcome, data) == IF outcome = "data" THEN data ELSE Null

\* a join that hands the results over in the order of completion; the
\* order-independence property C9 is checked to notice the difference
allSettledByCompletion(values, order) ==
  [i \in 1..Len(values) |-> [status |-> "fulfilled", value |-> values[order[i]]]]

\* Promise.allSettled: once every promise has settled, the results in the
\* order of the promises passed in, whatever the order of completion.
\* values[i] is what promise i fulfilled with, order the completion order.
allSettled(values, order) ==
  [i \in 1..Len(values) |-> [status |-> "fulfilled", value |-> values[i]]]

\* a join that never throws; the not-found property C8 is checked to notice
\* the difference
fetchMetadataJoinNoThrow(results) ==
  [threw |-> FALSE,
   metadata |-> [open_library |-> results[1].value, google_books |-> results[2].value]]

\* The part of fetchMetadata after the join: [openLibrary, googleBooks] are
\* the results as destructured from the array. threw = the 404
\* BookstoreError.
fetchMetadataJoin(results) ==
  LET openLibrary == results[1]
      googleBooks == results[2]
      metadata == [open_library |-> IF openLibrary.status = "fulfilled"
                                    THEN openLibrary.value ELSE Null,
                   google_books |-> IF googleBooks.status = "fulfilled"
                                    THEN googleBooks.value ELSE Null]
  IN IF metadata.open_library = Null /\ metadata.google_books = Null
     THEN [threw |-> TRUE, metadata |-> metadata]
     ELSE [threw |-> FALSE, metadata |-> metadata]

\* --------------------------------------------------------- enrichment.ts
Whitespace == {" ", "\t", "\n"}

RECURSIVE trimStart(_)
trimStart(s) ==
  IF Len(s) > 0 /\ CharAt(s, 1) \in Whitespace THEN trimStart(SubSeq(s, 2, Len(s)))
  ELSE s

RECURSIVE trimEnd(_)
trimEnd(s) ==
  IF Len(s) > 0 /\ CharAt(s, Len(s)) \in Whitespace THEN trimEnd(SubSeq(s, 1, Len(s) - 1))
  ELSE s

VibeSummaryLen == 100

\* description.substring(0, 100).trim(), '' without a description
extractVibeKeywords(description) ==
  IF ~Truthy(description) THEN ""
  ELSE trimEnd(trimStart(SubSeq(description, 1, Min(VibeSummaryLen, Len(description)))))

RECURSIVE toLowerCase(_)
toLowerCase(s) ==
  IF Len(s) = 0 THEN ""
  ELSE toLowerChar(CharAt(s, 1)) \o toLowerCase(SubSeq(s, 2, Len(s)))

\* String.prototype.includes for a non-empty part
includes(text, part) ==
  \E i \in 1..(Len(text) - Len(part) + 1) : SubSeq(text, i, i + Len(part) - 1) = part

Max(a, b) == IF a > b THEN a ELSE b

shockKeywords ==
  <<"shocking", "disturbing", "graphic", "controversial",
    "provocative", "unsettling", "dark", "twisted">>

\* a score that looks for the keywords in the description as it is written;
\* the intensity property C38 is checked to notice the difference
calculateShockFactorCaseSensitive(description) ==
  LET matches == IF Truthy(description)
                 THEN {i \in 1..Len(shockKeywords) : includes(description, shockKeywords[i])}
                 ELSE {}
      score == 5 + Cardinality(matches)
  IN Min(Max(score, 1), 10)

\* calculateShockFactor: the base score plus the number of list keywords
\* the lower-cased description includes, clamped to 1..10
calculateShockFactor(description) ==
  LET matches == IF Truthy(description)
                 THEN {i \in 1..Len(shockKeywords) :
                         includes(toLowerCase(description), shockKeywords[i])}
                 ELSE {}
      score == 5 + Cardinality(matches)
  IN Min(Max(score, 1), 10)

\* inferPace: the slow cues are looked for before the fast ones
inferPace(description) ==
  IF ~Truthy(description) THEN "moderate"
  ELSE LET lowerDesc == toLowerCase(description)
       IN IF includes(lowerDesc, "slow") \/ includes(lowerDesc, "meditative")
          THEN "slow_burn"
          ELSE IF \/ includes(lowerDesc, "fast") \/ includes(lowerDesc, "thriller")
                  \/ includes(lowerDesc, "action")
               THEN "fast_paced"
          ELSE "moderate"

\* What the heuristics of enrichBook can come to: they return, or one of them
\* throws (a description that is no string has no substring method).
EnrichOutcomes == {"ok", "threw"}

\* enrichBook: the heuristic path; its own try/catch turns any failure into
\* a minimal record, so the returned promise always fulfils.
enrichBook(title, author, description, outcome) ==
  IF outcome = "threw"
  THEN [vibe_keywords |-> title \o " by " \o author]
  ELSE [vibe_keywords |-> extractVibeKeywords(description)]

\* ------------------------------------------- storage.ts: StorageService
getFileExtension(contentType) ==
  CASE contentType = "image/jpeg" -> ".jpg"
    [] contentType = "image/jpg" -> ".jpg"
    [] contentType = "image/png" -> ".png"
    [] contentType = "image/gif" -> ".gif"
    [] contentType = "image/webp" -> ".webp"
    [] contentType = "application/pdf" -> ".pdf"
    [] OTHER -> ".jpg"

getPublicUrl(key) == "/assets/" \o key

\* the R2 key of a book's cover; header is the content-type header or None
coverKey(bookId, header) ==
  "covers/" \o ToString(bookId) \o getFileExtension(Or(header, "image/jpeg"))

\* What the download-then-store of a cover can come to.
UploadOutcomes == {"download_failed", "put_failed", "stored"}

\* a cover transfer that returns the bucket URL whether or not the object
\* was stored; the cover property C12 is checked to notice the difference
uploadBookCoverAlwaysLocal(bookId, imageUrl, outcome, header) ==
  getPublicUrl(coverKey(bookId, header))

\* uploadBookCover's return value: the public URL of the stored object, or
\* the original URL when the download or the put failed (the catch block).
uploadBookCover(bookId, imageUrl, outcome, header) ==
  IF outcome = "stored" THEN getPublicUrl(coverKey(bookId, header)) ELSE imageUrl

\* ------------------------------------------ schema.sql / DatabaseService
Conditions == {"like_new", "very_good", "good", "acceptable"}
Statuses == {"draft", "pending_review", "live", "sold", "removed"}

\* s || null when binding a text column
orNull(s) == IF Truthy(s) THEN s ELSE None

\* JSON.stringify then JSON.parse of a bag: fields that are undefined are
\* dropped by stringify and stay missing after parse.
jsonRoundTrip(bag) ==
  IF bag = Null THEN Null
  ELSE LET keep == {k \in DOMAIN bag : \/ (k \in {"page_count", "average_rating", "ratings_count"} /\ bag[k] # 0)
                                       \/ (k = "categories" /\ bag[k] # NoList)
                                       \/ (k \notin {"page_count", "average_rating", "ratings_count", "categories"}
                                           /\ bag[k] # None)}
       IN [k \in keep |-> bag[k]]

\* The Book object createBook builds from its input (id and now supplied by
\* generateUUID / getCurrentTimestamp).
createBookObject(bookData, id, now) ==
  [id |-> id,
   isbn |-> bookData.isbn,
   title |-> bookData.title,
   author |-> bookData.author,
   description |-> bookData.description,
   cover_url |-> bookData.cover_url,
   condition |-> Or(bookData.condition, "good"),
   cost_price |-> bookData.cost_price,
   sell_price |-> bookData.sell_price,
   in_stock |-> TRUE,
   metadata |-> bookData.metadata,
   vibe_tags |-> bookData.vibe_tags,
   ai_enrichment |-> bookData.ai_enrichment,
   review_summary |-> None,
   vector_id |-> None,
   status |-> Or(bookData.status, "draft"),
   created_at |-> now,
   updated_at |-> now,
   sold_at |-> NoTime]

\* The row the INSERT binds, as getBook reads it back (deserializeBook).
bookRow(book) ==
  [book EXCEPT !.description = orNull(book.description),
               !.cover_url = orNull(book.cover_url),
               !.metadata = jsonRoundTrip(book.metadata),
               !.vibe_tags = orNull(book.vibe_tags),
               !.ai_enrichment = jsonRoundTrip(book.ai_enrichment)]

\* ------------------------------------------------------------------ state
VARIABLES
  books,    \* the books table: id -> row (rowid = id, ids in insertion order)
  fts,      \* the books_fts index: rowid -> indexed row
  assets,   \* the keys of the objects in the R2 bucket
  req,      \* the request tasks: task -> kind, position, locals, and which of
            \* the store read, the enrichment and the cover transfer happened
  clock,    \* the wall clock getCurrentTimestamp() reads
  call      \* a call of a pure function on its own: name, argument, result

vars == <<books, fts, assets, req, clock, call>>

Reqs == 1..MaxReq
BookIds == 1..MaxBooks

\* ---------------------------------------------------- store operations
getBook(id) == IF id \in DOMAIN books THEN books[id] ELSE Null

\* SELECT * FROM books WHERE isbn = ? LIMIT 1 (the text as given)
getBookByISBN(isbn) ==
  IF \E id \in DOMAIN books : books[id].isbn = isbn
  THEN books[CHOOSE id \in DOMAIN books : books[id].isbn = isbn]
  ELSE Null

\* a books table without the CHECK constraints on condition and status; the
\* enumeration property C27 is checked to notice the difference
rowConstraintsUnchecked(row) == row.title # None /\ row.author # None

\* constraints of the books table checked on every INSERT and UPDATE
rowConstraintsOk(row) ==
  /\ row.title # None /\ row.author # None
  /\ row.condition \in Conditions
  /\ row.status \in Statuses

\* a books table without the UNIQUE constraint on isbn; the race property
\* C32 is checked to notice the difference
isbnUniqueUnchecked(row) == TRUE

\* the UNIQUE constraint on isbn, for a row to insert
isbnUnique(row) == \A id \in DOMAIN books : books[id].isbn # row.isbn

\* trigger books_fts_insert / the re-insert of books_fts_update
ftsRow(row) ==
  [book_id |-> row.id, title |-> row.title, author |-> row.author,
   description |-> row.description, vibe_tags |-> row.vibe_tags]

\* an index kept by the insert trigger alone, an UPDATE of books leaving its
\* row as it was; the lockstep property C23 is checked to notice the
\* difference
ftsAfterInsertOnly(rowid, row) ==
  IF rowid \in DOMAIN fts THEN fts
  ELSE [k \in DOMAIN fts \cup {rowid} |-> IF k = rowid THEN ftsRow(row) ELSE fts[k]]

\* books_fts after the row with this rowid was written (delete, then insert)
ftsAfterWrite(rowid, row) ==
  [k \in (DOMAIN fts \ {rowid}) \cup {rowid} |-> IF k = rowid THEN ftsRow(row) ELSE fts[k]]

AllowedFields ==
  {"title", "author", "description", "cover_url", "sell_price", "in_stock",
   "metadata", "vibe_tags", "ai_enrichment", "review_summary", "vector_id", "status"}

\* a SET list built from every field of the request, allow-listed or not;
\* the frame property C22 is checked to notice the difference
updateFieldsUnlisted(updates) == DOMAIN updates

\* the SET list updateBook builds: allow-listed fields present in updates
updateFields(updates) == AllowedFields \cap DOMAIN updates

\* the row after UPDATE books SET <fields>, updated_at = now
updatedRow(row, updates, now) ==
  [f \in DOMAIN row |->
     IF f \in updateFields(updates)
     THEN (IF f \in {"metadata", "ai_enrichment"} THEN jsonRoundTrip(updates[f])
           ELSE updates[f])
     ELSE IF f = "updated_at" THEN now
     ELSE row[f]]

\* the row after markBookAsSold's UPDATE
soldRow(row, now) ==
  [row EXCEPT !.in_stock = FALSE, !.status = "sold", !.sold_at = now, !.updated_at = now]

\* -------------------------------------------------------------- requests
NoResp == [status |-> 0, error |-> None, data |-> Null]
Response(status, error, data) == [status |-> status, error |-> error, data |-> data]

\* no pure function is called on its own
NoCall == [fn |-> "none", arg |-> Null, ret |-> Null]

IdleReq ==
  [kind |-> "none", pc |-> "idle", body |-> Null, bookId |-> NoId,
   olOut |-> "none", gbOut |-> "none", settled |-> << >>,
   read |-> FALSE, enrich |-> "none", upload |-> "none",
   book |-> Null, now |-> NoTime, upd |-> Null, errors |-> << >>,
   resp |-> NoResp]

Init ==
  /\ books = << >>
  /\ fts = << >>
  /\ assets = {}
  /\ req = [r \in Reqs |-> IdleReq]
  /\ clock = 1
  /\ call = NoCall

\* a task slot is free before its first request and after a response
Free(r) == req[r].pc \in {"idle", "done"}

\* the handler returns / throws: the response goes out, the task ends
Finish(r, cur, resp) == req' = [req EXCEPT ![r] = [cur EXCEPT !.pc = "done", !.resp = resp]]

\* time passes
Tick ==
  /\ clock < MaxClock
  /\ clock' = clock + 1
  /\ UNCHANGED <<books, fts, assets, req, call>>

\* ------------------------------------------------ inputs of the requests
\* identifiers a client may send: one ISBN-10 in two spellings (hyphens and
\* lower-case check digit), one ISBN-13, one string that is no ISBN
IsbnInputs == {"030640615X", "0-306-40615-x", "9780316769174", "12345"}

\* cost prices in mills of a pound: nothing, and 5.00 pounds
CostInputs == {0, 5 * MillsPerPound}

IngestBodies ==
  [isbn : IsbnInputs, condition : {"very_good", "acceptable"}, cost_price : CostInputs,
   custom_title : {None}, custom_author : {None}]

\* what the two providers hold for a normalized identifier
OpenLibraryCatalog(isbn) ==
  IF isbn = "030640615X"
  THEN [title |-> "The Moonstone", authors |-> <<[name |-> "W. Collins"]>>,
        cover_url |-> "https://ol/1-L.jpg",
        publishers |-> <<"Penguin">>, subjects |-> <<"Mystery", "Diamonds">>]
  ELSE [title |-> "Catcher in the Rye", authors |-> <<[name |-> "J. Salinger"]>>,
        cover_url |-> "https://ol/2-L.jpg"]

GoogleBooksCatalog(isbn) ==
  IF isbn = "030640615X"
  THEN [title |-> "Moonstone (Penguin)", authors |-> <<"W. Collins", "S. Kemp">>,
        description |-> "A dark mystery ",
        pageCount |-> 528, categories |-> <<"Fiction">>]
  ELSE [title |-> "The Catcher in the Rye", authors |-> <<"J. Salinger">>,
        description |-> "A witty story"]

\* content-type headers of a cover download: none, and a PNG
CoverContentTypes == {None, "image/png"}

\* ------------------------------------------- POST /api/admin/books/ingest
\* admin.ts ingestBook: the required-field checks of the route handler
routeValidation(body) ==
  IF ~Truthy(body.isbn) THEN "ISBN is required"
  ELSE IF ~Truthy(body.condition) THEN "Condition is required"
  ELSE IF body.cost_price = 0 \/ body.cost_price <= 0 THEN "Valid cost_price is required"
  ELSE None

\* a validation step that accepts everything; the fail-fast property C15 is
\* checked to notice the difference
serviceValidationAcceptsAll(request) == None

\* IngestionService.ingestBook step 1
serviceValidation(request) ==
  IF ~isValidISBN(request.isbn) THEN "Invalid ISBN format"
  ELSE IF request.cost_price <= 0 THEN "Cost price must be greater than 0"
  ELSE None

conflictMessage(isbn, existing) ==
  "Book with ISBN " \o isbn \o " already exists (ID: " \o ToString(existing.id) \o ")"

\* a duplicate check that looks the identifier up in normalized form; the
\* conflict property C1 is checked to notice the difference
duplicateOfNormalized(request) == getBookByISBN(normalizeISBN(request.isbn))

\* ingestBook step 2: the duplicate check on the identifier as sent
duplicateOf(request) == getBookByISBN(request.isbn)

\* rows the table can still take, counting the ingestions under way
Capacity ==
  Cardinality(DOMAIN books)
    + Cardinality({r \in Reqs : req[r].kind = "ingest" /\ ~Free(r)}) < MaxBooks

\* The request arrives; the handler validates, then ingestBook validates and
\* reads the store for a duplicate; with none it issues both provider lookups.
IngestStart(r, body) ==
  /\ Free(r)
  /\ LET cur == [IdleReq EXCEPT !.kind = "ingest", !.body = body]
         routeErr == routeValidation(body)
         serviceErr == serviceValidation(body)
         existing == duplicateOf(body)
     IN IF routeErr # None THEN Finish(r, cur, Response(400, routeErr, Null))
        ELSE IF serviceErr # None THEN Finish(r, cur, Response(400, serviceErr, Null))
        ELSE IF existing # Null
             THEN Finish(r, [cur EXCEPT !.read = TRUE],
                         Response(409, conflictMessage(body.isbn, existing), Null))
        ELSE /\ Capacity
             /\ req' = [req EXCEPT ![r] = [cur EXCEPT !.pc = "fetch", !.read = TRUE,
                                                        !.olOut = "pending",
                                                        !.gbOut = "pending"]]
  /\ UNCHANGED <<books, fts, assets, clock, call>>

\* the Open Library lookup of task r settles
SettleOpenLibrary(r, outcome) ==
  /\ req[r].pc = "fetch" /\ req[r].olOut = "pending"
  /\ req' = [req EXCEPT ![r].olOut = outcome, ![r].settled = Append(@, 1)]
  /\ UNCHANGED <<books, fts, assets, clock, call>>

\* the Google Books lookup of task r settles
SettleGoogleBooks(r, outcome) ==
  /\ req[r].pc = "fetch" /\ req[r].gbOut = "pending"
  /\ req' = [req EXCEPT ![r].gbOut = outcome, ![r].settled = Append(@, 2)]
  /\ UNCHANGED <<books, fts, assets, clock, call>>

\* fetchMetadata of task r once both lookups have settled
fetchMetadata(r) ==
  LET isbn == normalizeISBN(req[r].body.isbn)
  IN fetchMetadataJoin(
       allSettled(<<fetchOpenLibrary(req[r].olOut, OpenLibraryCatalog(isbn)),
                    fetchGoogleBooks(req[r].gbOut, GoogleBooksCatalog(isbn))>>,
                  req[r].settled))

notFoundMessage(isbn) ==
  "Failed to fetch metadata: Could not fetch metadata for ISBN: " \o isbn

\* a pipeline in which the merged title and author come before the custom
\* ones; the override property C30 is checked to notice the difference
ingestBookDataMergedFirst(request, external, enrich) ==
  LET merged == mergeMetadata(external)
      title == Or(merged.title, request.custom_title)
      author == Or(merged.author, request.custom_author)
      ai_enrichment == enrichBook(title, author, merged.description, enrich)
      cost_price_pence == poundsToPence(request.cost_price)
      suggested_price == calculateSuggestedPrice(cost_price_pence, request.condition)
  IN [isbn |-> request.isbn, title |-> title, author |-> author,
      description |-> merged.description, cover_url |-> merged.cover_url,
      condition |-> request.condition, cost_price |-> cost_price_pence,
      sell_price |-> suggested_price, in_stock |-> TRUE, metadata |-> merged.metadata,
      vibe_tags |-> ai_enrichment.vibe_keywords, ai_enrichment |-> ai_enrichment,
      status |-> "pending_review"]

\* ingestBook steps 4-8: the Partial<Book> handed to createBook
ingestBookData(request, external, enrich) ==
  LET merged == mergeMetadata(external)
      title == Or(request.custom_title, merged.title)
      author == Or(request.custom_author, merged.author)
      ai_enrichment == enrichBook(title, author, merged.description, enrich)
      cost_price_pence == poundsToPence(request.cost_price)
      suggested_price == calculateSuggestedPrice(cost_price_pence, request.condition)
  IN [isbn |-> request.isbn, title |-> title, author |-> author,
      description |-> merged.description, cover_url |-> merged.cover_url,
      condition |-> request.condition, cost_price |-> cost_price_pence,
      sell_price |-> suggested_price, in_stock |-> TRUE, metadata |-> merged.metadata,
      vibe_tags |-> ai_enrichment.vibe_keywords, ai_enrichment |-> ai_enrichment,
      status |-> "pending_review"]

\* a join that goes on to the merge as soon as one lookup has settled; the
\* step-order property C35 is checked to notice the difference
IngestJoinAfterFirst(r, enrich) ==
  /\ req[r].pc = "fetch"
  /\ req[r].olOut \in ProviderOutcomes \/ req[r].gbOut \in ProviderOutcomes
  /\ LET fetched == fetchMetadata(r)
     IN IF fetched.threw
        THEN Finish(r, req[r], Response(404, notFoundMessage(req[r].body.isbn), Null))
        ELSE req' = [req EXCEPT ![r].pc = "create",
                                ![r].enrich = enrich,
                                ![r].book = ingestBookData(req[r].body, fetched.metadata,
                                                           enrich),
                                ![r].now = clock]
  /\ UNCHANGED <<books, fts, assets, clock, call>>

\* Both lookups have settled: fetchMetadata returns or throws; on data the
\* pipeline merges, enriches (the heuristics returning or throwing), prices
\* and calls createBook, which stamps the record and issues the INSERT.
IngestJoin(r, enrich) ==
  /\ req[r].pc = "fetch"
  /\ req[r].olOut \in ProviderOutcomes /\ req[r].gbOut \in ProviderOutcomes
  /\ LET fetched == fetchMetadata(r)
     IN IF fetched.threw
        THEN Finish(r, req[r], Response(404, notFoundMessage(req[r].body.isbn), Null))
        ELSE req' = [req EXCEPT ![r].pc = "create",
                                ![r].enrich = enrich,
                                ![r].book = ingestBookData(req[r].body, fetched.metadata,
                                                           enrich),
                                ![r].now = clock]
  /\ UNCHANGED <<books, fts, assets, clock, call>>

\* generateUUID: a fresh id
generateUUID == Cardinality(DOMAIN books) + 1

\* the success result of ingestBook (suggested_price: pence / 100, in mills)
ingestResult(r, createdBook, errors) ==
  (IF Len(errors) > 0 THEN [errors |-> errors] ELSE << >>) @@
  [success |-> TRUE, book_id |-> createdBook.id, book |-> createdBook,
   metadata |-> fetchMetadata(r).metadata,
   suggested_price |-> createdBook.sell_price * (MillsPerPound \div 100)]

\* The INSERT of createBook executes. A constraint violation throws a store
\* error, which ingestBook's outer catch turns into a 500. Otherwise the row
\* and its index row exist, and with a cover reference the cover transfer
\* starts.
IngestCreate(r) ==
  /\ req[r].kind = "ingest" /\ req[r].pc = "create"
  /\ LET book == createBookObject(req[r].book, generateUUID, req[r].now)
         row == bookRow(book)
     IN IF ~(rowConstraintsOk(row) /\ isbnUnique(row))
        THEN /\ Finish(r, req[r], Response(500, "Failed to ingest book: constraint failed", Null))
             /\ UNCHANGED <<books, fts>>
        ELSE /\ books' = books @@ (book.id :> row)
             /\ fts' = ftsAfterWrite(book.id, row)
             /\ IF Truthy(book.cover_url)
                THEN req' = [req EXCEPT ![r].pc = "upload", ![r].book = book,
                                        ![r].bookId = book.id]
                ELSE Finish(r, [req[r] EXCEPT !.book = book, !.bookId = book.id],
                            Response(201, None, ingestResult(r, book, req[r].errors)))
  /\ UNCHANGED <<assets, clock, call>>

\* ------------------------------------------ DatabaseService.updateBook
\* updateBook returned `result` (a row, or Null) to the caller of task r
UpdateReturned(r, result) ==
  LET cur == req[r]
  IN CASE cur.kind = "ingest" ->
            \* the return value is not used; the local record takes the new URL
            LET createdBook == [cur.book EXCEPT !.cover_url = cur.upd.cover_url]
            IN Finish(r, [cur EXCEPT !.book = createdBook],
                      Response(201, None, ingestResult(r, createdBook, cur.errors)))
       [] cur.kind = "approve" ->
            IF result = Null
            THEN Finish(r, cur, Response(500, "Failed to update book", Null))
            ELSE Finish(r, cur, Response(200, None, [success |-> TRUE, book |-> result]))
       [] cur.kind = "reject" ->
            Finish(r, cur, Response(200, None,
                                    [success |-> TRUE, message |-> "Book rejected and removed"]))
       [] OTHER ->
            IF result = Null
            THEN Finish(r, cur, Response(404, "Book not found", Null))
            ELSE Finish(r, cur, Response(200, None, [book |-> result]))

\* a store error of updateBook that no catch of ingestBook takes up, so
\* that it ends the request; the completion property C11 is checked to
\* notice the difference
UpdateThrewUncaught(r) == Finish(r, req[r], Response(500, "constraint failed", Null))

\* the UPDATE of updateBook threw a store error in task r
UpdateThrew(r) ==
  LET cur == req[r]
  IN IF cur.kind = "ingest"
     THEN LET errors == Append(cur.errors, "Cover upload failed - using external URL")
          IN Finish(r, [cur EXCEPT !.errors = errors],
                    Response(201, None, ingestResult(r, cur.book, errors)))
     ELSE Finish(r, cur, Response(500, "constraint failed", Null))

\* updateBook reads the row: a missing row returns null, an update without
\* allow-listed fields returns the row as read; otherwise the UPDATE is
\* built with the current time and issued.
UpdGet(r) ==
  /\ req[r].pc = "upd_get"
  /\ LET existing == getBook(req[r].bookId)
     IN IF existing = Null THEN UpdateReturned(r, Null)
        ELSE IF updateFields(req[r].upd) = {} THEN UpdateReturned(r, existing)
        ELSE req' = [req EXCEPT ![r].pc = "upd_write", ![r].now = clock]
  /\ UNCHANGED <<books, fts, assets, clock, call>>

\* an UPDATE that, for a reject, deletes the row and its index row instead
\* of writing the status; the no-deletion property C21 is checked to notice
\* the difference
UpdWriteDeleting(r) ==
  /\ req[r].pc = "upd_write"
  /\ LET id == req[r].bookId
         new == updatedRow(books[id], req[r].upd, req[r].now)
     IN IF ~rowConstraintsOk(new)
        THEN UpdateThrew(r) /\ UNCHANGED <<books, fts>>
        ELSE /\ books' = IF req[r].kind = "reject"
                         THEN [k \in DOMAIN books \ {id} |-> books[k]]
                         ELSE [books EXCEPT ![id] = new]
             /\ fts' = IF req[r].kind = "reject"
                       THEN [k \in DOMAIN fts \ {id} |-> fts[k]]
                       ELSE ftsAfterWrite(id, new)
             /\ req' = [req EXCEPT ![r].pc = "upd_ret"]
  /\ UNCHANGED <<assets, clock, call>>

\* the UPDATE executes (with the books_fts_update trigger), or violates a
\* constraint of the table
UpdWrite(r) ==
  /\ req[r].pc = "upd_write"
  /\ LET id == req[r].bookId
         new == updatedRow(books[id], req[r].upd, req[r].now)
     IN IF ~rowConstraintsOk(new)
        THEN UpdateThrew(r) /\ UNCHANGED <<books, fts>>
        ELSE /\ books' = [books EXCEPT ![id] = new]
             /\ fts' = ftsAfterWrite(id, new)
             /\ req' = [req EXCEPT ![r].pc = "upd_ret"]
  /\ UNCHANGED <<assets, clock, call>>

\* a statement of updateBook fails with a store error: before the UPDATE
\* nothing was written, after it the row stays written
UpdFail(r) ==
  /\ req[r].pc \in {"upd_get", "upd_write", "upd_ret"}
  /\ UpdateThrew(r)
  /\ UNCHANGED <<books, fts, assets, clock, call>>

\* updateBook reads the row back and returns it
UpdRet(r) ==
  /\ req[r].pc = "upd_ret"
  /\ UpdateReturned(r, getBook(req[r].bookId))
  /\ UNCHANGED <<books, fts, assets, clock, call>>

\* a cover update that writes the record held by the ingestion back with
\* the new URL; the interleaving property C36 is checked to notice the
\* difference
IngestUploadWholeRecord(r, outcome, header) ==
  /\ req[r].pc = "upload"
  /\ LET cur == req[r]
         cover_url == cur.book.cover_url
         uploadedCoverUrl == uploadBookCover(cur.bookId, cover_url, outcome, header)
     IN /\ assets' = IF outcome = "stored" THEN assets \cup {coverKey(cur.bookId, header)}
                     ELSE assets
        /\ IF uploadedCoverUrl # cover_url
           THEN req' = [req EXCEPT ![r].pc = "upd_get", ![r].upload = outcome,
                                   ![r].upd = [f \in {"status", "sell_price", "title",
                                                      "cover_url"} |->
                                                 IF f = "cover_url" THEN uploadedCoverUrl
                                                 ELSE cur.book[f]]]
           ELSE Finish(r, [cur EXCEPT !.upload = outcome],
                       Response(201, None, ingestResult(r, cur.book, cur.errors)))
  /\ UNCHANGED <<books, fts, clock, call>>

\* ----------------------------------------- ingestBook step 9: the cover
\* uploadBookCover downloads the image and puts it into the bucket; a URL
\* different from the external one is written to the book with updateBook.
IngestUpload(r, outcome, header) ==
  /\ req[r].pc = "upload"
  /\ LET cur == req[r]
         cover_url == cur.book.cover_url
         uploadedCoverUrl == uploadBookCover(cur.bookId, cover_url, outcome, header)
     IN /\ assets' = IF outcome = "stored" THEN assets \cup {coverKey(cur.bookId, header)}
                     ELSE assets
        /\ IF uploadedCoverUrl # cover_url
           THEN req' = [req EXCEPT ![r].pc = "upd_get", ![r].upload = outcome,
                                   ![r].upd = [cover_url |-> uploadedCoverUrl]]
           ELSE Finish(r, [cur EXCEPT !.upload = outcome],
                       Response(201, None, ingestResult(r, cur.book, cur.errors)))
  /\ UNCHANGED <<books, fts, clock, call>>

\* ------------------------------------ PATCH /api/admin/books/:id/approve
\* bodies of the approve request: {} (no edit), a final price of 9.99 pounds
\* and one of 0 (in mills of a pound), and an edit of title and tags
ApproveBodies ==
  {Null, [final_price |-> 9990], [final_price |-> 0],
   [title |-> "Edited Title", vibe_tags |-> "edited tags"]}

\* approveBook's updateData
approveUpdateData(updates) ==
  [status |-> "live"]
    @@ (IF GetNum(updates, "final_price") # 0
        THEN [sell_price |-> poundsToPence(updates.final_price)] ELSE << >>)
    @@ (IF Truthy(Get(updates, "title")) THEN [title |-> updates.title] ELSE << >>)
    @@ (IF Truthy(Get(updates, "author")) THEN [author |-> updates.author] ELSE << >>)
    @@ (IF Truthy(Get(updates, "description"))
        THEN [description |-> updates.description] ELSE << >>)
    @@ (IF Truthy(Get(updates, "vibe_tags")) THEN [vibe_tags |-> updates.vibe_tags] ELSE << >>)

\* approveBook's guard on the book it read
approveRefused(book) == book.status = "live"

\* The approve request arrives and approveBook reads the book: a missing book
\* is a 404, a refused one a 400; otherwise updateBook is called.
ApproveStart(r, id, updates) ==
  /\ Free(r)
  /\ LET cur == [IdleReq EXCEPT !.kind = "approve", !.body = updates, !.bookId = id]
         book == getBook(id)
     IN IF book = Null THEN Finish(r, cur, Response(404, "Book not found", Null))
        ELSE IF approveRefused(book)
             THEN Finish(r, cur, Response(400, "Book is already live", Null))
        ELSE req' = [req EXCEPT ![r] = [cur EXCEPT !.pc = "upd_get",
                                                   !.upd = approveUpdateData(updates)]]
  /\ UNCHANGED <<books, fts, assets, clock, call>>

\* ------------------------------------------ DELETE /api/admin/books/:id
\* a rejection that also takes the book out of stock; the reject property C6
\* is checked to notice the difference
rejectUpdateDataOutOfStock == [status |-> "removed", in_stock |-> FALSE]

rejectUpdateData == [status |-> "removed"]

\* The reject request arrives and rejectBook reads the book: a missing book is
\* a 404; otherwise updateBook is called.
RejectStart(r, id) ==
  /\ Free(r)
  /\ LET cur == [IdleReq EXCEPT !.kind = "reject", !.bookId = id]
         book == getBook(id)
     IN IF book = Null THEN Finish(r, cur, Response(404, "Book not found", Null))
        ELSE req' = [req EXCEPT ![r] = [cur EXCEPT !.pc = "upd_get", !.upd = rejectUpdateData]]
  /\ UNCHANGED <<books, fts, assets, clock, call>>

\* ------------------------------------------- PATCH /api/admin/books/:id
\* bodies of the generic update: a status of the workflow, one outside it,
\* the stock flag, no field at all, and a field that is not allow-listed
UpdateBodies ==
  {[status |-> "live"], [status |-> "draft"], [status |-> "archived"],
   [in_stock |-> FALSE], Null, [cost_price |-> 1]}

\* The update request arrives: the handler passes the parsed body to
\* updateBook as it is.
UpdateStart(r, id, body) ==
  /\ Free(r)
  /\ req' = [req EXCEPT ![r] = [IdleReq EXCEPT !.kind = "update", !.body = body,
                                               !.bookId = id, !.pc = "upd_get",
                                               !.upd = body]]
  /\ UNCHANGED <<books, fts, assets, clock, call>>

\* ----------------------------------------------------------------- sale
\* markBookAsSold has no caller in the repository and no test of its own;
\* the purchase event that calls it is taken to be for a book the public
\* API offers (live and in stock)
purchasable(book) == book.status = "live" /\ book.in_stock

\* markBookAsSold: one UPDATE (with the books_fts_update trigger)
MarkBookAsSold(id) ==
  /\ id \in DOMAIN books
  /\ purchasable(books[id])
  /\ books' = [books EXCEPT ![id] = soldRow(books[id], clock)]
  /\ fts' = ftsAfterWrite(id, books'[id])
  /\ UNCHANGED <<assets, req, clock, call>>

\* ------------------------------------------------ listing and searching
\* the characters of a token of the index: letters and digits
TokenChars == DigitChars \cup LowerSet \cup UpperSet

isTokenChar(c) == c \in TokenChars

RECURSIVE tokensFrom(_, _, _)
\* the FTS5 tokens of text from position i on, word the token under way:
\* maximal runs of letters and digits, folded to lower case
tokensFrom(text, i, word) ==
  IF i > Len(text) THEN (IF word = "" THEN << >> ELSE <<word>>)
  ELSE LET c == CharAt(text, i)
       IN IF isTokenChar(c) THEN tokensFrom(text, i + 1, word \o toLowerChar(c))
          ELSE IF word = "" THEN tokensFrom(text, i + 1, "")
          ELSE <<word>> \o tokensFrom(text, i + 1, "")

tokens(text) == IF text = None THEN << >> ELSE tokensFrom(text, 1, "")

\* the tokens of the indexed columns of a books_fts row
ftsTokens(row) ==
  tokens(row.title) \o tokens(row.author) \o tokens(row.description) \o tokens(row.vibe_tags)

\* how often the query term occurs in the row
termFrequency(query, row) ==
  LET ts == ftsTokens(row)
      q == tokens(query)
  IN Cardinality({i \in 1..Len(ts) : Len(q) = 1 /\ ts[i] = q[1]})

\* books_fts MATCH ? for a one-word query
ftsMatch(query, row) == termFrequency(query, row) > 0

\* bm25(books_fts) for a one-word query: the more often the term occurs the
\* lower (better) the score
bm25(query, row) == 0 - termFrequency(query, row)

RECURSIVE orderBy(_, _)
\* the rowids of S as a sequence, by ascending key[rowid], rows of one key in
\* rowid order
orderBy(S, key) ==
  IF S = {} THEN << >>
  ELSE LET first == CHOOSE a \in S : \A b \in S \ {a} :
                      key[a] < key[b] \/ (key[a] = key[b] /\ a < b)
       IN <<first>> \o orderBy(S \ {first}, key)

\* LIMIT limit OFFSET offset, as SQLite reads them: a negative limit is no
\* limit, a negative offset is no offset
limitOffset(rows, limit, offset) ==
  LET skip == IF offset < 0 THEN 0 ELSE offset
      last == IF limit < 0 THEN Len(rows) ELSE Min(skip + limit, Len(rows))
  IN SubSeq(rows, skip + 1, last)

\* the WHERE clause listBooks builds from its filters
listWhere(filters, row) ==
  /\ (Truthy(Get(filters, "status")) => row.status = filters.status)
  /\ ("in_stock" \in DOMAIN filters => row.in_stock = filters.in_stock)

\* ORDER BY created_at DESC
newerFirst == [id \in DOMAIN books |-> 0 - books[id].created_at]

listBooks(filters, limit, offset) ==
  LET matching == {id \in DOMAIN books : listWhere(filters, books[id])}
      ordered == orderBy(matching, newerFirst)
      page == limitOffset(ordered, limit, offset)
  IN [books |-> [i \in 1..Len(page) |-> books[page[i]]], total |-> Cardinality(matching)]

\* GET /api/books
listPublicBooks(limit, offset) ==
  LET result == listBooks([status |-> "live", in_stock |-> TRUE], limit, offset)
  IN Response(200, None,
              [books |-> result.books, total |-> result.total, limit |-> limit,
               offset |-> offset,
               has_more |-> offset + Len(result.books) < result.total])

\* GET /api/admin/books: status and in_stock as the query string gives them
\* (None when the parameter is missing)
adminListBooks(status, in_stock, limit, offset) ==
  LET filters == [status |-> status]
                   @@ (IF Truthy(in_stock) THEN [in_stock |-> in_stock = "true"] ELSE << >>)
      result == listBooks(filters, limit, offset)
  IN Response(200, None,
              [books |-> result.books, total |-> result.total, limit |-> limit,
               offset |-> offset,
               has_more |-> offset + Len(result.books) < result.total])

\* a visibility test that looks at the status alone; the visibility property
\* C7 is checked to notice the difference
publicHiddenByStatus(book) == book.status # "live"

\* getPublicBook's test of the book it read
publicHidden(book) == book.status # "live" \/ ~book.in_stock

\* GET /api/books/:id
getPublicBook(bookId) ==
  LET book == getBook(bookId)
  IN IF book = Null THEN Response(404, "Book not found", Null)
     ELSE IF publicHidden(book) THEN Response(404, "Book not available", Null)
     ELSE Response(200, None, [book |-> book])

\* GET /api/admin/books/:id
adminGetBook(bookId) ==
  LET book == getBook(bookId)
  IN IF book = Null THEN Response(404, "Book not found", Null)
     ELSE Response(200, None, [book |-> book])

\* the status / stock condition of the search query's WHERE clause
searchWhere(row) == row.status = "live" /\ row.in_stock

\* searchBooksByKeyword: books_fts joined to books on rowid
searchBooksByKeyword(query, limit) ==
  LET hits == {k \in DOMAIN fts \cap DOMAIN books :
                 searchWhere(books[k]) /\ ftsMatch(query, fts[k])}
      score == [k \in hits |-> bm25(query, fts[k])]
      ranked == limitOffset(orderBy(hits, score), limit, 0)
  IN [i \in 1..Len(ranked) |-> books[ranked[i]]]

\* whether FTS5 parses the text bound to MATCH as a query: barewords (letters,
\* digits, underscore) separated by whitespace do; any other character
\* outside a quoted string is query syntax, and a "-" between two barewords
\* is a syntax error (the statement fails)
ftsQueryParses(query) ==
  \A i \in 1..Len(query) : CharAt(query, i) \in TokenChars \cup Whitespace \cup {"_"}

\* GET /api/search: the statement of searchBooksByKeyword throws on a query
\* that does not parse, and handleError answers 500
searchBooks(q, limit) ==
  IF ~Truthy(q) \/ Len(trimEnd(trimStart(q))) = 0
  THEN Response(400, "Search query is required", Null)
  ELSE IF ~ftsQueryParses(q) THEN Response(500, "fts5: syntax error", Null)
  ELSE LET found == searchBooksByKeyword(q, limit)
       IN Response(200, None, [query |-> q, results |-> found, total |-> Len(found)])

\* ------------------------------------------------- router.ts, index.ts
RECURSIVE splitFrom(_, _, _)
\* the pieces of text between the "/" characters, from position i on,
\* piece the piece under way
splitFrom(text, i, piece) ==
  IF i > Len(text) THEN <<piece>>
  ELSE IF CharAt(text, i) = "/" THEN <<piece>> \o splitFrom(text, i + 1, "")
  ELSE splitFrom(text, i + 1, piece \o CharAt(text, i))

\* pathname.match(/^\/assets\/([^/]+)$/): the pattern addRoute builds from
\* '/assets/:path' matches "/assets/" followed by one non-empty piece
\* without a "/"; the params of the match, or Null without one
assetRouteMatch(pathname) ==
  LET pieces == splitFrom(pathname, 1, "")
  IN IF Len(pieces) = 3 /\ pieces[1] = "" /\ pieces[2] = "assets" /\ pieces[3] # ""
     THEN [path |-> pieces[3]]
     ELSE Null

\* GET of a pathname that starts with /assets: the asset route when its
\* pattern matches (no other GET route matches such a pathname), else the
\* router's 404; the route reads the object under covers/<path>
getAsset(pathname) ==
  LET params == assetRouteMatch(pathname)
  IN IF params = Null THEN Response(404, "Not found", Null)
     ELSE LET key == "covers/" \o params.path
          IN IF key \in assets THEN Response(200, None, [object |-> key])
             ELSE Response(404, "Image not found", Null)

\* ------------------------------------------------------ specifications
\* the task that serves the requests when they are served one at a time
Task == CHOOSE r \in Reqs : \A q \in Reqs : r <= q

\* The ingestion pipeline, requests served one at a time: every identifier
\* spelling, every pair of provider outcomes in either completion order,
\* every outcome of the cover transfer.
NextIngest ==
  \/ Tick
  \/ \E body \in IngestBodies : IngestStart(Task, body)
  \/ \E outcome \in ProviderOutcomes : SettleOpenLibrary(Task, outcome)
  \/ \E outcome \in ProviderOutcomes : SettleGoogleBooks(Task, outcome)
  \/ IngestJoin(Task, "ok")
  \/ IngestCreate(Task)
  \/ \E outcome \in UploadOutcomes, header \in CoverContentTypes :
       IngestUpload(Task, outcome, header)
  \/ UpdGet(Task)
  \/ UpdWrite(Task)
  \/ UpdRet(Task)

SpecIngest == Init /\ [][NextIngest]_vars

\* ingestions of the life cycle runs: two identifiers, both providers
\* answering, the cover stored; the clock stands still
LifecycleBodies ==
  [isbn : {"030640615X", "9780316769174"}, condition : {"very_good"},
   cost_price : {5 * MillsPerPound}, custom_title : {None}, custom_author : {None}]

\* The life cycle of the books, requests served one at a time: ingest,
\* approve, reject, generic update and sale in every order.
Next ==
  \/ \E body \in LifecycleBodies : IngestStart(Task, body)
  \/ SettleOpenLibrary(Task, "data")
  \/ SettleGoogleBooks(Task, "data")
  \/ IngestJoin(Task, "ok")
  \/ IngestCreate(Task)
  \/ IngestUpload(Task, "stored", None)
  \/ UpdGet(Task)
  \/ UpdWrite(Task)
  \/ UpdRet(Task)
  \/ \E id \in BookIds, updates \in ApproveBodies : ApproveStart(Task, id, updates)
  \/ \E id \in BookIds : RejectStart(Task, id)
  \/ \E id \in BookIds, body \in UpdateBodies : UpdateStart(Task, id, body)
  \/ \E id \in BookIds : MarkBookAsSold(id)

Spec == Init /\ [][Next]_vars

\* The best-effort steps of the pipeline, requests served one at a time:
\* ingestions of two identifiers with every pair of provider outcomes, the
\* heuristics of the enrichment returning or throwing, every outcome of the
\* cover transfer, and the store failing in the cover update.
NextBestEffort ==
  \/ \E body \in LifecycleBodies : IngestStart(Task, body)
  \/ \E outcome \in ProviderOutcomes : SettleOpenLibrary(Task, outcome)
  \/ \E outcome \in ProviderOutcomes : SettleGoogleBooks(Task, outcome)
  \/ \E enrich \in EnrichOutcomes : IngestJoin(Task, enrich)
  \/ IngestCreate(Task)
  \/ \E outcome \in UploadOutcomes, header \in CoverContentTypes :
       IngestUpload(Task, outcome, header)
  \/ UpdGet(Task)
  \/ UpdWrite(Task)
  \/ UpdRet(Task)
  \/ UpdFail(Task)

SpecBestEffort == Init /\ [][NextBestEffort]_vars

\* mergeMetadata on its own. What a provider's record can hold for the four
\* merged fields: a title that is missing, empty or given; no, one or two
\* authors; a description that is missing, empty or given; a cover reference
\* or none.
GoogleBooksRecords ==
  [title : {None, "", "B title"}, authors : {<< >>, <<"B. One">>, <<"B. One", "B. Two">>},
   description : {None, "", "B description"}, cover_url : {None, "https://gb/c.jpg"}]

OpenLibraryRecords ==
  [title : {None, "", "A title"},
   authors : {<< >>, <<[name |-> "A. One"]>>, <<[name |-> "A. One"], [name |-> "A. Two"]>>},
   description : {None, "", "A description"}, cover_url : {None, "https://ol/c.jpg"}]

\* the ExternalMetadata fetchMetadata can return: at least one provider has data
MergeInputs ==
  {ext \in [open_library : OpenLibraryRecords \cup {Null},
            google_books : GoogleBooksRecords \cup {Null}] :
     ext.open_library # Null \/ ext.google_books # Null}

InitMerge ==
  /\ books = << >>
  /\ fts = << >>
  /\ assets = {}
  /\ req = [r \in Reqs |-> IdleReq]
  /\ clock = 1
  /\ call \in [fn : {"mergeMetadata"}, arg : MergeInputs, ret : {Null}]

\* mergeMetadata is applied to the argument and returns
ApplyMerge ==
  /\ call.fn = "mergeMetadata" /\ call.ret = Null
  /\ call' = [call EXCEPT !.ret = mergeMetadata(call.arg)]
  /\ UNCHANGED <<books, fts, assets, req, clock>>

NextMerge == ApplyMerge

SpecMerge == InitMerge /\ [][NextMerge]_vars

\* ingestions of the outcome runs: two identifiers and a string that is no
\* ISBN, a condition of the enumeration and one outside it
OutcomeBodies ==
  [isbn : {"030640615X", "9780316769174", "12345"}, condition : {"very_good", "poor"},
   cost_price : {5 * MillsPerPound}, custom_title : {None}, custom_author : {None}]

\* Every way an ingestion can end, requests served one at a time: refused by
\* the validation, a duplicate, no provider with data, the INSERT refused by
\* the table, and created with the cover transfer and the cover update
\* succeeding or failing.
NextOutcome ==
  \/ \E body \in OutcomeBodies : IngestStart(Task, body)
  \/ \E outcome \in {"data", "notfound"} : SettleOpenLibrary(Task, outcome)
  \/ \E outcome \in {"data", "failure"} : SettleGoogleBooks(Task, outcome)
  \/ IngestJoin(Task, "ok")
  \/ IngestCreate(Task)
  \/ \E outcome \in UploadOutcomes : IngestUpload(Task, outcome, None)
  \/ UpdGet(Task)
  \/ UpdWrite(Task)
  \/ UpdRet(Task)
  \/ UpdFail(Task)

SpecOutcome == Init /\ [][NextOutcome]_vars

\* ingestions of the race runs: one identifier in two spellings
RaceBodies ==
  [isbn : {"030640615X", "0-306-40615-x"}, condition : {"very_good"},
   cost_price : {5 * MillsPerPound}, custom_title : {None}, custom_author : {None}]

\* Ingestions running concurrently: every task takes requests, and the
\* steps of the tasks interleave at the awaits in every order.
NextRace ==
  \E r \in Reqs :
    \/ \E body \in RaceBodies : IngestStart(r, body)
    \/ SettleOpenLibrary(r, "data")
    \/ \E outcome \in {"data", "notfound"} : SettleGoogleBooks(r, outcome)
    \/ IngestJoin(r, "ok")
    \/ IngestCreate(r)
    \/ \E outcome \in {"stored", "download_failed"} : IngestUpload(r, outcome, None)
    \/ UpdGet(r)
    \/ UpdWrite(r)
    \/ UpdRet(r)

SpecRace == Init /\ [][NextRace]_vars

\* Approvals running concurrently: the first task ingests a book, and every
\* task takes approve requests whose steps interleave at the awaits.
NextApprove ==
  \/ \E body \in RaceBodies : IngestStart(Task, body)
  \/ SettleOpenLibrary(Task, "data")
  \/ SettleGoogleBooks(Task, "data")
  \/ IngestJoin(Task, "ok")
  \/ IngestCreate(Task)
  \/ IngestUpload(Task, "download_failed", None)
  \/ \E r \in Reqs :
       \/ \E id \in BookIds, updates \in ApproveBodies : ApproveStart(r, id, updates)
       \/ UpdGet(r)
       \/ UpdWrite(r)
       \/ UpdRet(r)

SpecApprove == Init /\ [][NextApprove]_vars

\* bodies of the requests that run beside an ingestion: an approve with a
\* final price and one with edits, an update of the status and one of the
\* texts
InterleaveApproveBodies ==
  {[final_price |-> 9990], [title |-> "Edited Title", vibe_tags |-> "edited tags"]}

InterleaveUpdateBodies ==
  {[status |-> "live"],
   [title |-> "Edited Title", author |-> "Edited Author",
    description |-> "Edited description"]}

\* An ingestion with the operations on its book running beside it: the
\* first task ingests, the other tasks take approve, reject and update
\* requests, and the steps interleave at the awaits.
NextInterleave ==
  \/ \E body \in RaceBodies : IngestStart(Task, body)
  \/ SettleOpenLibrary(Task, "data")
  \/ SettleGoogleBooks(Task, "data")
  \/ IngestJoin(Task, "ok")
  \/ IngestCreate(Task)
  \/ IngestUpload(Task, "stored", None)
  \/ UpdGet(Task)
  \/ UpdWrite(Task)
  \/ UpdRet(Task)
  \/ \E r \in Reqs \ {Task} :
       \/ \E id \in BookIds, updates \in InterleaveApproveBodies :
            ApproveStart(r, id, updates)
       \/ \E id \in BookIds : RejectStart(r, id)
       \/ \E id \in BookIds, body \in InterleaveUpdateBodies : UpdateStart(r, id, body)
       \/ UpdGet(r)
       \/ UpdWrite(r)
       \/ UpdRet(r)

SpecInterleave == Init /\ [][NextInterleave]_vars

\* ingestions of the override runs: two identifiers, and a custom title and
\* a custom author that are missing, empty or given
CustomBodies ==
  [isbn : {"030640615X", "9780316769174"}, condition : {"very_good"},
   cost_price : {5 * MillsPerPound},
   custom_title : {None, "", "My Title"}, custom_author : {None, "", "My Author"}]

\* The custom title and author through the pipeline, requests served one at
\* a time: either provider with or without data, the heuristics of the
\* enrichment returning or throwing, the cover stored or not.
NextCustom ==
  \/ \E body \in CustomBodies : IngestStart(Task, body)
  \/ \E outcome \in {"data", "notfound"} : SettleOpenLibrary(Task, outcome)
  \/ \E outcome \in {"data", "notfound"} : SettleGoogleBooks(Task, outcome)
  \/ \E enrich \in EnrichOutcomes : IngestJoin(Task, enrich)
  \/ IngestCreate(Task)
  \/ \E outcome \in {"stored", "download_failed"} : IngestUpload(Task, outcome, None)
  \/ UpdGet(Task)
  \/ UpdWrite(Task)
  \/ UpdRet(Task)

SpecCustom == Init /\ [][NextCustom]_vars

\* mergeMetadata on the categories. What a provider's record holds: no list,
\* or the first n of seven names (Open Library under subjects, Google Books
\* under categories).
CategoryNames == <<"Fiction", "Mystery", "Classics", "Crime", "Gothic", "India", "Diamonds">>
CategoryLists == {SubSeq(CategoryNames, 1, n) : n \in 0..Len(CategoryNames)}

OpenLibrarySubjects ==
  {[title |-> "A title"]} \cup {[title |-> "A title", subjects |-> l] : l \in CategoryLists}

GoogleBooksCategories ==
  {[title |-> "B title"]} \cup {[title |-> "B title", categories |-> l] : l \in CategoryLists}

InitCategories ==
  /\ books = << >>
  /\ fts = << >>
  /\ assets = {}
  /\ req = [r \in Reqs |-> IdleReq]
  /\ clock = 1
  /\ call \in {c \in [fn : {"mergeMetadata"},
                        arg : [open_library : OpenLibrarySubjects \cup {Null},
                               google_books : GoogleBooksCategories \cup {Null}],
                        ret : {Null}] :
                 c.arg.open_library # Null \/ c.arg.google_books # Null}

SpecCategories == InitCategories /\ [][NextMerge]_vars

\* ingestions of the price runs: one identifier, a cost of a tenth of a
\* penny (0.001 pounds) and one of 5 pounds
PriceRunBodies ==
  [isbn : {"030640615X"}, condition : {"very_good"}, cost_price : {1, 5 * MillsPerPound},
   custom_title : {None}, custom_author : {None}]

\* approve bodies of the price runs: {}, a final price of 9.99 pounds, and
\* one of -10 pounds
PriceRunApproveBodies == {Null, [final_price |-> 9990], [final_price |-> 0 - 10 * MillsPerPound]}

\* bodies of the generic update of the price runs: a sell price, a cost
\* price (not allow-listed), a status
PriceRunUpdateBodies == {[sell_price |-> 1], [cost_price |-> 1], [status |-> "live"]}

\* The prices of a book over its life, requests served one at a time:
\* ingestion with whole and fractional costs, approve with and without a
\* final price, reject, generic update, sale.
NextPriceRun ==
  \/ \E body \in PriceRunBodies : IngestStart(Task, body)
  \/ SettleOpenLibrary(Task, "data")
  \/ SettleGoogleBooks(Task, "data")
  \/ IngestJoin(Task, "ok")
  \/ IngestCreate(Task)
  \/ IngestUpload(Task, "stored", None)
  \/ UpdGet(Task)
  \/ UpdWrite(Task)
  \/ UpdRet(Task)
  \/ \E id \in BookIds, updates \in PriceRunApproveBodies : ApproveStart(Task, id, updates)
  \/ \E id \in BookIds : RejectStart(Task, id)
  \/ \E id \in BookIds, body \in PriceRunUpdateBodies : UpdateStart(Task, id, body)
  \/ \E id \in BookIds : MarkBookAsSold(id)

SpecPriceRun == Init /\ [][NextPriceRun]_vars

\* bodies of the generic update of the update runs: an allow-listed field
\* together with every field that is not allow-listed, fields that are not
\* allow-listed only, no field, two allow-listed fields, and a status outside
\* the workflow
UpdateRunBodies ==
  {[title |-> "Edited Title", id |-> 9, isbn |-> "0000000000", condition |-> "good",
    cost_price |-> 1, created_at |-> 9, sold_at |-> 9],
   [cost_price |-> 1, created_at |-> 9],
   Null,
   [in_stock |-> FALSE, sell_price |-> 1],
   [status |-> "archived"]}

\* updateBook under every caller while time passes, requests served one at a
\* time: ingestion with its cover update, approve, reject, generic update
\* (of stored and of unknown ids), sale.
NextUpdate ==
  \/ Tick
  \/ \E body \in LifecycleBodies : IngestStart(Task, body)
  \/ SettleOpenLibrary(Task, "data")
  \/ SettleGoogleBooks(Task, "data")
  \/ IngestJoin(Task, "ok")
  \/ IngestCreate(Task)
  \/ IngestUpload(Task, "stored", None)
  \/ UpdGet(Task)
  \/ UpdWrite(Task)
  \/ UpdRet(Task)
  \/ \E id \in BookIds : ApproveStart(Task, id, Null)
  \/ \E id \in BookIds : RejectStart(Task, id)
  \/ \E id \in BookIds, body \in UpdateRunBodies : UpdateStart(Task, id, body)
  \/ \E id \in BookIds : MarkBookAsSold(id)

SpecUpdate == Init /\ [][NextUpdate]_vars

\* ingestions of the constraint runs: two identifiers, a condition of the
\* enumeration and one outside it
ConstraintBodies ==
  [isbn : {"030640615X", "9780316769174"}, condition : {"very_good", "poor"},
   cost_price : {5 * MillsPerPound}, custom_title : {None}, custom_author : {None}]

\* bodies of the generic update of the constraint runs: statuses of the
\* workflow, and values outside it (a word, the empty string)
ConstraintUpdateBodies ==
  {[status |-> "live"], [status |-> "sold"], [status |-> "archived"], [status |-> ""]}

\* The table's constraints at work, requests served one at a time: ingestion
\* with conditions in and outside the enumeration, approve, reject, generic
\* update with statuses in and outside the workflow, sale.
NextConstraints ==
  \/ \E body \in ConstraintBodies : IngestStart(Task, body)
  \/ \E outcome \in {"data", "notfound"} : SettleOpenLibrary(Task, outcome)
  \/ SettleGoogleBooks(Task, "data")
  \/ IngestJoin(Task, "ok")
  \/ IngestCreate(Task)
  \/ IngestUpload(Task, "stored", None)
  \/ UpdGet(Task)
  \/ UpdWrite(Task)
  \/ UpdRet(Task)
  \/ \E id \in BookIds : ApproveStart(Task, id, Null)
  \/ \E id \in BookIds : RejectStart(Task, id)
  \/ \E id \in BookIds, body \in ConstraintUpdateBodies : UpdateStart(Task, id, body)
  \/ \E id \in BookIds : MarkBookAsSold(id)

SpecConstraints == Init /\ [][NextConstraints]_vars

\* normalizeISBN and isValidISBN on their own. The identifiers: the first n
\* digits of a 14-digit string (13 of them an ISBN-13 with a wrong check
\* digit), bare or behind a label or a hyphen, and bare or followed by a
\* check digit X in either case or by characters that are stripped.
IsbnDigits == "97803064061589"
IsbnPrefixes == {"", "ISBN ", "0-"}
IsbnSuffixes == {"", "x", "X", "-q "}

IsbnStrings ==
  {pre \o SubSeq(IsbnDigits, 1, n) \o suf :
     pre \in IsbnPrefixes, n \in 0..Len(IsbnDigits), suf \in IsbnSuffixes}

InitIsbn ==
  /\ books = << >>
  /\ fts = << >>
  /\ assets = {}
  /\ req = [r \in Reqs |-> IdleReq]
  /\ clock = 1
  /\ call \in [fn : {"normalizeISBN", "isValidISBN"}, arg : IsbnStrings, ret : {Null}]

\* normalizeISBN is applied to the argument and returns
ApplyNormalizeISBN ==
  /\ call.fn = "normalizeISBN" /\ call.ret = Null
  /\ call' = [call EXCEPT !.ret = [value |-> normalizeISBN(call.arg)]]
  /\ UNCHANGED <<books, fts, assets, req, clock>>

\* isValidISBN is applied to the argument and returns
ApplyIsValidISBN ==
  /\ call.fn = "isValidISBN" /\ call.ret = Null
  /\ call' = [call EXCEPT !.ret = [value |-> isValidISBN(call.arg)]]
  /\ UNCHANGED <<books, fts, assets, req, clock>>

NextIsbn == ApplyNormalizeISBN \/ ApplyIsValidISBN

SpecIsbn == InitIsbn /\ [][NextIsbn]_vars

\* calculateSuggestedPrice on its own: every cost price in pence up to
\* MaxCostPrice, the four condition labels and one outside the enumeration.
PriceInputs == [costPrice : 1..MaxCostPrice, condition : Conditions \cup {"poor"}]

InitPrice ==
  /\ books = << >>
  /\ fts = << >>
  /\ assets = {}
  /\ req = [r \in Reqs |-> IdleReq]
  /\ clock = 1
  /\ call \in [fn : {"calculateSuggestedPrice"}, arg : PriceInputs, ret : {Null}]

\* calculateSuggestedPrice is applied to the argument and returns
ApplyPrice ==
  /\ call.fn = "calculateSuggestedPrice" /\ call.ret = Null
  /\ call' = [call EXCEPT
                !.ret = [value |-> calculateSuggestedPrice(call.arg.costPrice,
                                                           call.arg.condition)]]
  /\ UNCHANGED <<books, fts, assets, req, clock>>

NextPrice == ApplyPrice

SpecPrice == InitPrice /\ [][NextPrice]_vars

\* the descriptions the heuristics are applied to: none, the empty one, up
\* to two phrases of a list, and one with all eight keywords
DescriptionPhrases ==
  {"Shocking", "a DISTURBING tale", "graphic", "Controversial", "provocative",
   "unsettling", "darkness", "Twisted", "shocking and shocking", "a quiet story",
   "Slowly told", "meditative", "fast", "a THRILLER", "transaction"}

DescriptionInputs ==
  {None, "",
   "Shocking, disturbing, GRAPHIC, controversial, provocative, unsettling, dark and twisted"}
    \cup DescriptionPhrases
    \cup {a \o ", " \o b : a \in DescriptionPhrases, b \in DescriptionPhrases}

InitEnrich ==
  /\ books = << >>
  /\ fts = << >>
  /\ assets = {}
  /\ req = [r \in Reqs |-> IdleReq]
  /\ clock = 1
  /\ call \in [fn : {"calculateShockFactor", "inferPace"}, arg : DescriptionInputs,
               ret : {Null}]

\* calculateShockFactor is applied to the description and returns
ApplyShockFactor ==
  /\ call.fn = "calculateShockFactor" /\ call.ret = Null
  /\ call' = [call EXCEPT !.ret = [value |-> calculateShockFactor(call.arg)]]
  /\ UNCHANGED <<books, fts, assets, req, clock>>

\* inferPace is applied to the description and returns
ApplyPace ==
  /\ call.fn = "inferPace" /\ call.ret = Null
  /\ call' = [call EXCEPT !.ret = [value |-> inferPace(call.arg)]]
  /\ UNCHANGED <<books, fts, assets, req, clock>>

NextEnrich == ApplyShockFactor \/ ApplyPace

SpecEnrich == InitEnrich /\ [][NextEnrich]_vars

\* ============================================================ properties
\* an ingestion request arrives at task r in this step
IngestArrives(r) == Free(r) /\ req'[r] # req[r] /\ req'[r].kind = "ingest"

\* the ids of the stored books whose isbn is this string
storedAs(isbn) == {id \in DOMAIN books : books[id].isbn = isbn}

\* C1 -- Once a book ingested under identifier string I is stored, every
\* ingestion request that arrives with the same string I and a valid cost
\* ends at once with a 409 whose message names the stored book's id, issues
\* no provider lookup, and leaves table, index and bucket as they were.
C1_DuplicateIsConflict ==
  [][\A r \in Reqs :
       (/\ IngestArrives(r)
        /\ storedAs(req'[r].body.isbn) # {}
        /\ req'[r].body.cost_price > 0)
       => /\ req'[r].pc = "done"
          /\ req'[r].resp.status = 409
          /\ \E id \in storedAs(req'[r].body.isbn) :
               req'[r].resp.error =
                 "Book with ISBN " \o req'[r].body.isbn
                   \o " already exists (ID: " \o ToString(id) \o ")"
          /\ req'[r].olOut = "none" /\ req'[r].gbOut = "none"
          /\ req'[r].settled = << >>
          /\ UNCHANGED <<books, fts, assets>>]_vars

\* a second ingestion of a stored identifier string has been answered 409
C1_Witness ==
  \E r \in Reqs :
    /\ req[r].kind = "ingest" /\ req[r].pc = "done"
    /\ req[r].resp.status = 409
    /\ storedAs(req[r].body.isbn) # {}

\* C2 -- No two stored books have the same normalized identifier.
C2_NormalizedIsbnUnique ==
  \A a, b \in DOMAIN books :
    normalizeISBN(books[a].isbn) = normalizeISBN(books[b].isbn) => a = b

\* the edges of the status state machine
StatusEdges ==
  {<<"draft", "live">>, <<"pending_review", "live">>, <<"live", "sold">>,
   <<"draft", "removed">>, <<"pending_review", "removed">>, <<"live", "removed">>}

\* C3 -- Every change of a stored book's status is an edge of the status
\* state machine, and a book enters the table in pending_review.
C3_StatusEdgesOnly ==
  [][/\ \A id \in DOMAIN books :
          books'[id].status # books[id].status
            => <<books[id].status, books'[id].status>> \in StatusEdges
     /\ \A id \in DOMAIN books' \ DOMAIN books : books'[id].status = "pending_review"]_vars

\* the UPDATE of updateBook, issued for a request of this kind, executes in
\* this step of task r
WriteStep(r, kind) ==
  req[r].kind = kind /\ req[r].pc = "upd_write" /\ req'[r].pc # "upd_write"

\* a request of this kind arrives at task r in this step
Arrives(r, kind) == Free(r) /\ req'[r] # req[r] /\ req'[r].kind = kind

\* round(final_price x 100), the price held in mills of a pound
roundToPence(mills) == (mills + 5) \div 10

\* C4 -- Approving a book in pending_review makes it live and sets sell_price
\* to round(final_price x 100) when the request supplies a final_price
\* (sell_price as it was otherwise); an approve request for a live book is
\* answered 400 and leaves the store as it was.
C4_ApprovePendingThenRefuse ==
  [][\A r \in Reqs :
       /\ (WriteStep(r, "approve") /\ books[req[r].bookId].status = "pending_review")
          => LET id == req[r].bookId
             IN /\ books'[id].status = "live"
                /\ books'[id].sell_price =
                     IF "final_price" \in DOMAIN req[r].body
                     THEN roundToPence(req[r].body.final_price)
                     ELSE books[id].sell_price
       /\ (Arrives(r, "approve") /\ req'[r].bookId \in DOMAIN books
             /\ books[req'[r].bookId].status = "live")
          => /\ req'[r].pc = "done" /\ req'[r].resp.status = 400
             /\ UNCHANGED <<books, fts, assets>>]_vars

\* C5 -- An approve makes a book live only from draft or pending_review; a
\* sold or removed book is never made live by an approve.
C5_ApproveOnlyFromDraftOrPending ==
  [][\A r \in Reqs :
       (WriteStep(r, "approve") /\ books'[req[r].bookId].status = "live")
       => books[req[r].bookId].status \in {"draft", "pending_review"}]_vars

PublicLimits == {1, 20}
PublicOffsets == {0, 1}

\* one-word queries: words of the catalog entries, and one of an edit
SearchQueries == {"moonstone", "Salinger", "edited"}

\* the sequence holds only books that are live and in stock
onlyAvailable(found) ==
  \A i \in 1..Len(found) : found[i].status = "live" /\ found[i].in_stock

\* C7 -- Whatever the store holds, the public list, the public lookup and the
\* keyword search return only books that are live and in stock; the public
\* lookup answers 404 for a stored book that is not, while the admin lookup
\* of the same id returns it.
C7_PublicSeesOnlyAvailable ==
  /\ \A limit \in PublicLimits, offset \in PublicOffsets :
       onlyAvailable(listPublicBooks(limit, offset).data.books)
  /\ \A q \in SearchQueries, limit \in PublicLimits :
       onlyAvailable(searchBooks(q, limit).data.results)
  /\ \A id \in DOMAIN books :
       IF books[id].status = "live" /\ books[id].in_stock
       THEN getPublicBook(id) = Response(200, None, [book |-> books[id]])
       ELSE /\ getPublicBook(id).status = 404
            /\ adminGetBook(id) = Response(200, None, [book |-> books[id]])

\* the list and the search return the one available book while the table
\* also holds a live book that is out of stock, hidden from the public lookup
C7_Witness ==
  \E a, b \in DOMAIN books :
    /\ books[a].status = "live" /\ books[a].in_stock
    /\ books[b].status = "live" /\ ~books[b].in_stock
    /\ listPublicBooks(20, 0).data.total = 1
    /\ \E q \in SearchQueries : Len(searchBooks(q, 20).data.results) = 1
    /\ getPublicBook(b).status = 404

\* a provider outcome without data: not found, or a failed call
Absent(outcome) == outcome \in {"notfound", "failure"}

\* both lookups of task r's ingestion have settled
BothSettled(r) ==
  req[r].kind = "ingest" /\ req[r].olOut \in ProviderOutcomes /\ req[r].gbOut \in ProviderOutcomes

\* C8 -- When both provider lookups of an ingestion end without data (not
\* found or failed, in any combination), the ingestion ends with a 404 as
\* its next step, and from the arrival of the request to the response no
\* book row and no bucket object is written.
C8_BothAbsentIsNotFound ==
  [][\A r \in Reqs :
       (/\ BothSettled(r) /\ req[r].pc = "fetch"
        /\ Absent(req[r].olOut) /\ Absent(req[r].gbOut))
       => /\ UNCHANGED <<books, fts, assets>>
          /\ req'[r] # req[r]
             => /\ req'[r].pc = "done"
                /\ req'[r].resp.status = 404
                /\ req'[r].resp.error =
                     "Failed to fetch metadata: Could not fetch metadata for ISBN: "
                       \o req[r].body.isbn
                /\ req'[r].bookId = NoId]_vars

\* an ingestion whose providers both had no data has been answered 404
C8_Witness ==
  \E r \in Reqs :
    /\ BothSettled(r) /\ req[r].pc = "done" /\ req[r].resp.status = 404
    /\ req[r].olOut = "notfound" /\ req[r].gbOut = "failure"
    /\ books = << >> /\ assets = {}

\* what a provider's outcome contributes to the result of fetchMetadata
expectedResult(outcome, data) == IF outcome = "data" THEN data ELSE Null

\* C9 -- Once both lookups have settled, in either order of completion,
\* fetchMetadata throws exactly when both outcomes are without data, and
\* otherwise returns under each provider's name that provider's data if it
\* had any and nothing if it had none; the ingestion is answered 404 exactly
\* when fetchMetadata threw.
C9_FetchDependsOnOutcomesOnly ==
  \A r \in Reqs :
    BothSettled(r) =>
      LET isbn == normalizeISBN(req[r].body.isbn)
          fetched == fetchMetadata(r)
      IN /\ fetched.threw <=> (Absent(req[r].olOut) /\ Absent(req[r].gbOut))
         /\ ~fetched.threw =>
              /\ fetched.metadata.open_library
                   = expectedResult(req[r].olOut, OpenLibraryCatalog(isbn))
              /\ fetched.metadata.google_books
                   = expectedResult(req[r].gbOut, GoogleBooksCatalog(isbn))
         /\ req[r].pc # "fetch" =>
              ((req[r].resp.status = 404) <=> (Absent(req[r].olOut) /\ Absent(req[r].gbOut)))
         /\ (req[r].pc = "create" /\ req[r].gbOut = "data")
              => req[r].book.title = GoogleBooksCatalog(isbn).title
         /\ (req[r].pc = "create" /\ req[r].gbOut # "data")
              => req[r].book.title = OpenLibraryCatalog(isbn).title

\* Google Books answered first with data, Open Library failed after it, and
\* the pipeline has gone on with Google Books' data
C9_Witness ==
  \E r \in Reqs :
    /\ BothSettled(r) /\ req[r].pc = "create"
    /\ req[r].settled = <<2, 1>>
    /\ req[r].olOut = "failure" /\ req[r].gbOut = "data"
    /\ req[r].book.title = GoogleBooksCatalog(normalizeISBN(req[r].body.isbn)).title

\* a provider offers a text value: the field is there and not empty
Offers(obj, f) == obj # Null /\ f \in DOMAIN obj /\ obj[f] \notin {None, ""}

\* B's value when B offers one, else A's when A offers one, else the default
byPrecedence(b, a, f, default) ==
  IF Offers(b, f) THEN b[f] ELSE IF Offers(a, f) THEN a[f] ELSE default

\* a provider offers authors: it returned data with at least one author
OffersAuthors(obj) == obj # Null /\ Len(obj.authors) > 0

\* a value is absent: undefined or the empty string
IsAbsent(v) == v \in {None, ""}

\* the merged value is the provider's, an absent one being absent
sameOrAbsent(mergedValue, v) == mergedValue = v \/ (IsAbsent(mergedValue) /\ IsAbsent(v))

\* C10 -- The merged title, author, description and cover are Google Books'
\* value when it offers one, else Open Library's, else "Unknown Title" /
\* "Unknown Author" / absent; authors are joined with ", ". With one provider
\* only (the other without data) these are that provider's values, the
\* placeholder standing in for a title or author it does not offer.
C10_MergePrecedence ==
  (call.fn = "mergeMetadata" /\ call.ret # Null) =>
    LET a == call.arg.open_library
        b == call.arg.google_books
        merged == call.ret
    IN /\ merged.title = byPrecedence(b, a, "title", "Unknown Title")
       /\ merged.author =
            IF OffersAuthors(b) THEN join(b.authors, ", ")
            ELSE IF OffersAuthors(a)
                 THEN join([i \in 1..Len(a.authors) |-> a.authors[i].name], ", ")
            ELSE "Unknown Author"
       /\ IF Offers(b, "description") \/ Offers(a, "description")
          THEN merged.description = byPrecedence(b, a, "description", None)
          ELSE IsAbsent(merged.description)
       /\ merged.cover_url = byPrecedence(b, a, "cover_url", None)
       /\ a = Null
            => /\ merged.title = (IF Offers(b, "title") THEN b.title ELSE "Unknown Title")
               /\ merged.author = (IF OffersAuthors(b) THEN join(b.authors, ", ")
                                   ELSE "Unknown Author")
               /\ sameOrAbsent(merged.description, b.description)
               /\ sameOrAbsent(merged.cover_url, b.cover_url)
       /\ b = Null
            => /\ merged.title = (IF Offers(a, "title") THEN a.title ELSE "Unknown Title")
               /\ merged.author =
                    (IF OffersAuthors(a)
                     THEN join([i \in 1..Len(a.authors) |-> a.authors[i].name], ", ")
                     ELSE "Unknown Author")
               /\ sameOrAbsent(merged.description, a.description)
               /\ sameOrAbsent(merged.cover_url, a.cover_url)

\* both providers offered every field, two authors each, and the merge has
\* returned Google Books' values
C10_Witness ==
  /\ call.fn = "mergeMetadata" /\ call.ret # Null
  /\ call.arg.open_library # Null /\ call.arg.google_books # Null
  /\ Offers(call.arg.open_library, "title") /\ Offers(call.arg.google_books, "title")
  /\ Len(call.arg.open_library.authors) = 2 /\ Len(call.arg.google_books.authors) = 2
  /\ Offers(call.arg.open_library, "cover_url") /\ Offers(call.arg.google_books, "cover_url")
  /\ call.ret.title = "B title" /\ call.ret.author = "B. One, B. Two"

\* the ingestion of task r has been answered
IngestDone(r) == req[r].kind = "ingest" /\ req[r].pc = "done"

\* the cover transfer of task r's ingestion failed (download or put)
TransferFailed(r) == req[r].upload \in {"download_failed", "put_failed"}

\* C11 -- An answered ingestion for which a provider had data, and every
\* answered ingestion that created its row, was answered 201 with the
\* created record in pending_review and in stock, whether the enrichment
\* heuristics threw, the cover download or put failed, or the cover update
\* failed in the store.
C11_IngestionCompletes ==
  \A r \in Reqs :
    (IngestDone(r) /\ (req[r].bookId # NoId \/ req[r].olOut = "data" \/ req[r].gbOut = "data"))
    => /\ req[r].resp.status = 201
       /\ req[r].resp.data.success
       /\ req[r].resp.data.book_id = req[r].bookId
       /\ req[r].resp.data.book.id = req[r].bookId
       /\ req[r].resp.data.book.status = "pending_review"
       /\ req[r].resp.data.book.in_stock
       /\ req[r].bookId \in DOMAIN books
       /\ books[req[r].bookId].status = "pending_review"

\* an ingestion whose enrichment threw and whose cover update failed in the
\* store after a stored cover has been answered 201
C11_Witness ==
  \E r \in Reqs :
    /\ IngestDone(r) /\ req[r].resp.status = 201
    /\ req[r].enrich = "threw" /\ req[r].upload = "stored"
    /\ Len(req[r].errors) > 0

\* the cover reference of the merged metadata of task r's ingestion
externalCover(r) == mergeMetadata(fetchMetadata(r).metadata).cover_url

\* C12 -- An ingestion whose cover download or put failed was answered 201,
\* and the cover reference of the record in the response and of the stored
\* row is the external URL of the merged metadata.
C12_FailedTransferKeepsExternalUrl ==
  \A r \in Reqs :
    (IngestDone(r) /\ TransferFailed(r))
    => /\ req[r].resp.status = 201
       /\ req[r].resp.data.book.cover_url = externalCover(r)
       /\ books[req[r].bookId].cover_url = externalCover(r)
       /\ \A header \in CoverContentTypes : coverKey(req[r].bookId, header) \notin assets

\* an ingestion whose put into the bucket failed has been answered 201 with
\* Open Library's cover URL
C12_Witness ==
  \E r \in Reqs :
    /\ IngestDone(r) /\ req[r].upload = "put_failed"
    /\ req[r].resp.status = 201
    /\ books[req[r].bookId].cover_url = "https://ol/1-L.jpg"

\* the errors list of the response is there and holds this string
hasSoftError(resp, text) ==
  /\ "errors" \in DOMAIN resp.data
  /\ \E i \in 1..Len(resp.data.errors) : resp.data.errors[i] = text

\* C13 -- A 201 answer to an ingestion whose cover download or put failed
\* carries an errors list holding the cover-upload warning.
C13_FailedTransferIsReported ==
  \A r \in Reqs :
    (IngestDone(r) /\ req[r].resp.status = 201 /\ TransferFailed(r))
    => hasSoftError(req[r].resp, "Cover upload failed - using external URL")

\* C14 -- An ingestion whose enrichment failed is answered 201 with its row
\* created, and the answer carries an errors list holding the enrichment
\* warning.
C14_FailedEnrichmentIsReported ==
  \A r \in Reqs :
    (IngestDone(r) /\ req[r].enrich = "threw")
    => /\ req[r].resp.status = 201
       /\ req[r].bookId \in DOMAIN books
       /\ hasSoftError(req[r].resp, "AI enrichment failed - using defaults")

\* task r's request has started none of: provider lookup, enrichment, cover
\* transfer
NothingStarted(rec) ==
  /\ rec.olOut = "none" /\ rec.gbOut = "none" /\ rec.settled = << >>
  /\ rec.enrich = "none" /\ rec.upload = "none"

\* C15 -- An ingestion request whose identifier does not normalize to 10 or
\* 13 characters, or whose cost is not above 0, is answered 400 at once
\* without the store being read or a provider called, also when its
\* identifier is stored; one that passes validation but carries a stored
\* identifier is answered 409 at once with no lookup, enrichment, write or
\* transfer started.
C15_FailFastInOrder ==
  [][\A r \in Reqs :
       Arrives(r, "ingest") =>
         LET request == req'[r].body
             n == normalizeISBN(request.isbn)
             invalid == Len(n) \notin {10, 13} \/ request.cost_price <= 0
         IN /\ invalid
               => /\ req'[r].pc = "done" /\ req'[r].resp.status = 400
                  /\ ~req'[r].read
                  /\ NothingStarted(req'[r])
                  /\ UNCHANGED <<books, fts, assets>>
            /\ (~invalid /\ storedAs(request.isbn) # {})
               => /\ req'[r].pc = "done" /\ req'[r].resp.status = 409
                  /\ req'[r].read
                  /\ NothingStarted(req'[r])
                  /\ UNCHANGED <<books, fts, assets>>]_vars

\* a request with a stored identifier and no cost has been answered 400
\* without a read of the store
C15_Witness ==
  \E r \in Reqs :
    /\ IngestDone(r) /\ req[r].resp.status = 400 /\ ~req[r].read
    /\ storedAs(req[r].body.isbn) # {}
    /\ req[r].body.cost_price = 0

\* ten times the condition multiplier of the pricing rule
multiplierTenths(condition) ==
  CASE condition = "like_new" -> 12
    [] condition = "very_good" -> 11
    [] condition = "good" -> 10
    [] condition = "acceptable" -> 8

\* ceil(n / 10) for n >= 0
ceilOfTenths(n) == (n + 9) \div 10

\* C16 -- For a cost price c > 0 and each of the four condition labels,
\* calculateSuggestedPrice returns 100 x ceil(c x 3 x m) - 1, which is
\* positive and ends in 99.
C16_PriceIsCeilMinusOne ==
  (call.fn = "calculateSuggestedPrice" /\ call.ret # Null
     /\ call.arg.condition \in Conditions)
  => /\ call.ret.value
          = 100 * ceilOfTenths(call.arg.costPrice * 3 * multiplierTenths(call.arg.condition)) - 1
     /\ call.ret.value > 0
     /\ call.ret.value % 100 = 99

\* C17 -- A book ingested with cost_price 5.00 pounds and condition
\* very_good is stored with cost_price 500 and sell_price 1299 (pence), and
\* its ingestion is answered with suggested_price 12.99; the suggested_price
\* of every answer is the stored sell_price divided by 100.
C17_DocumentedPrice ==
  [][\A r \in Reqs :
       /\ (req[r].kind = "ingest" /\ req[r].pc = "create" /\ req'[r].bookId \in DOMAIN books'
             /\ req[r].body.cost_price = 5 * MillsPerPound
             /\ req[r].body.condition = "very_good")
          => /\ books'[req'[r].bookId].cost_price = 500
             /\ books'[req'[r].bookId].sell_price = 1299
       /\ (req[r].kind = "ingest" /\ req[r].pc # "done" /\ req'[r].pc = "done"
             /\ req'[r].resp.status = 201)
          => /\ req'[r].resp.data.suggested_price * 100
                  = books'[req'[r].bookId].sell_price * MillsPerPound
             /\ (req[r].body.cost_price = 5 * MillsPerPound
                   /\ req[r].body.condition = "very_good")
                => req'[r].resp.data.suggested_price * 100 = 1299 * MillsPerPound]_vars

\* C18 -- The cost_price and the sell_price of every stored book are
\* non-negative (whole numbers of pence).
C18_PricesNonNegative ==
  \A id \in DOMAIN books :
    /\ books[id].cost_price \in Nat
    /\ books[id].sell_price \in Nat

\* C19 -- A book is created with the price the pricing rule derives from
\* its cost and condition, and its sell_price changes only in the UPDATE of
\* an approve whose request supplies a final_price.
C19_SellPriceOnlyByApprove ==
  [][/\ \A id \in DOMAIN books :
          books'[id].sell_price # books[id].sell_price
            => \E r \in Reqs : /\ WriteStep(r, "approve") /\ req[r].bookId = id
                               /\ "final_price" \in DOMAIN req[r].body
     /\ \A id \in DOMAIN books' \ DOMAIN books :
          books'[id].sell_price
            = calculateSuggestedPrice(books'[id].cost_price, books'[id].condition)]_vars

\* C20 -- A book is created in stock, and in_stock changes only in the sale,
\* which sets it to false together with status sold and sold_at.
C20_InStockOnlyBySale ==
  [][/\ \A id \in DOMAIN books' \ DOMAIN books : books'[id].in_stock
     /\ \A id \in DOMAIN books :
          books'[id].in_stock # books[id].in_stock
            => /\ ~books'[id].in_stock
               /\ books'[id].status = "sold" /\ books[id].status # "sold"
               /\ books'[id].sold_at # NoTime
               /\ UNCHANGED req]_vars

\* C21 -- A stored book stays stored in every step (ingest, approve, reject,
\* generic update, sale), the admin lookup of its id keeps answering 200 with
\* it, and a book enters the table only in the INSERT of an ingestion, which
\* then goes on to its 201.
C21_BooksNeverDeleted ==
  [][/\ \A id \in DOMAIN books :
          /\ id \in DOMAIN books'
          /\ adminGetBook(id)'.status = 200
          /\ adminGetBook(id)'.data.book.id = id
          /\ books'[id].isbn = books[id].isbn
     /\ \A id \in DOMAIN books' \ DOMAIN books :
          \E r \in Reqs :
            /\ req[r].kind = "ingest" /\ req[r].pc = "create"
            /\ req'[r].bookId = id
            /\ req'[r].pc = "upload" \/ req'[r].resp.status = 201]_vars

\* a reject has been answered 200 while the table holds two books, and the
\* admin lookup still returns the rejected one
C21_Witness ==
  \E r \in Reqs :
    /\ req[r].kind = "reject" /\ req[r].pc = "done" /\ req[r].resp.status = 200
    /\ Cardinality(DOMAIN books) = MaxBooks
    /\ adminGetBook(req[r].bookId).status = 200
    /\ adminGetBook(req[r].bookId).data.book.status = "removed"

\* the fields updateBook may change, and those it must never change
C22_AllowListed ==
  {"title", "author", "description", "cover_url", "sell_price", "in_stock",
   "metadata", "vibe_tags", "ai_enrichment", "review_summary", "vector_id", "status"}
C22_Frozen == {"id", "isbn", "condition", "cost_price", "created_at", "sold_at"}

\* C22 -- In every step of an updateBook call (whoever calls it) no row but
\* the addressed one changes, and that one only in its UPDATE: there the
\* allow-listed fields present in the update take the given values,
\* updated_at takes the time read in the call, and every other field (id,
\* isbn, condition, cost_price, created_at, sold_at, allow-listed fields not
\* present) keeps its value, unless the store refuses the row and nothing is
\* written. With no allow-listed field present the call returns the row as
\* stored, updated_at included, and writes nothing; for an id that is not
\* stored it returns not-found and writes nothing.
C22_UpdateFrame ==
  [][\A r \in Reqs :
       (req[r].pc \in {"upd_get", "upd_write", "upd_ret"} /\ req'[r] # req[r])
       => LET id == req[r].bookId
              present == C22_AllowListed \cap DOMAIN req[r].upd
          IN /\ DOMAIN books' = DOMAIN books
             /\ \A k \in DOMAIN books \ {id} : books'[k] = books[k]
             /\ req[r].pc # "upd_write" => books' = books
             /\ (req[r].pc = "upd_write" /\ req'[r].pc = "upd_ret")
                => /\ present # {}
                   /\ \A f \in present : books'[id][f] = req[r].upd[f]
                   /\ books'[id].updated_at = req[r].now
                   /\ req[r].now <= clock
                   /\ \A f \in DOMAIN books[id] \ (present \cup {"updated_at"}) :
                        books'[id][f] = books[id][f]
                   /\ \A f \in C22_Frozen : books'[id][f] = books[id][f]
             /\ (req[r].pc = "upd_write" /\ req'[r].pc # "upd_ret")
                => /\ books' = books
                   /\ req'[r].pc = "done" /\ req'[r].resp.status \in {201, 500}
             /\ (req[r].pc = "upd_get" /\ id \in DOMAIN books)
                => IF present = {}
                   THEN /\ req'[r].pc = "done"
                        /\ req[r].kind = "update"
                           => req'[r].resp = Response(200, None, [book |-> books[id]])
                   ELSE req'[r].pc = "upd_write" /\ req'[r].now = clock
             /\ (req[r].pc = "upd_get" /\ id \notin DOMAIN books)
                => /\ req'[r].pc = "done"
                   /\ req[r].kind = "update" => req'[r].resp.status = 404]_vars

\* a generic update that named an allow-listed field together with fields
\* that are not has been answered 200 for a sold book: the title and
\* updated_at are new, the cost, the creation and the sale time are as before
C22_Witness ==
  \E r \in Reqs :
    /\ req[r].kind = "update" /\ req[r].pc = "done" /\ req[r].resp.status = 200
    /\ "cost_price" \in DOMAIN req[r].upd /\ "title" \in DOMAIN req[r].upd
    /\ LET book == books[req[r].bookId]
       IN /\ book.title = "Edited Title" /\ book.cost_price = 500
          /\ book.status = "sold" /\ book.sold_at = book.created_at
          /\ book.updated_at > book.created_at

\* C23 -- The rows of the search index are exactly those of the stored
\* books, one under each book's rowid, and each holds its book's id and its
\* current title, author, description and vibe_tags.
C23_IndexInLockstep ==
  /\ DOMAIN fts = DOMAIN books
  /\ \A k \in DOMAIN books :
       /\ fts[k].book_id = books[k].id
       /\ fts[k].title = books[k].title
       /\ fts[k].author = books[k].author
       /\ fts[k].description = books[k].description
       /\ fts[k].vibe_tags = books[k].vibe_tags
       /\ DOMAIN fts[k] = {"book_id", "title", "author", "description", "vibe_tags"}

\* an approve has edited title and tags of one of two stored books, which
\* was sold afterwards, and the index holds the edited values
C23_Witness ==
  \E a, b \in DOMAIN books :
    /\ a # b
    /\ books[a].title = "Edited Title" /\ books[a].vibe_tags = "edited tags"
    /\ books[a].status = "sold"
    /\ fts[a].title = "Edited Title" /\ fts[a].vibe_tags = "edited tags"
    /\ fts[b].title # "Edited Title"

\* query parameters of the list requests: status and in_stock filters
\* (None: not given), page sizes and offsets as parseInt hands them on
ListStatusParams == {None, "live", "pending_review"}
ListStockParams == {None, "true", "false"}
ListLimits == {0 - 1, 0, 1, 20}
ListOffsets == {0 - 1, 0, 1, 3}

\* the stored books a list request with these filters is about
C24_Matching(status, in_stock) ==
  {id \in DOMAIN books :
     /\ (status # None => books[id].status = status)
     /\ (in_stock # None => books[id].in_stock = (in_stock = "true"))}

\* the page is a run of matching books without repetition, newest first
C24_PageOf(page, matching) ==
  /\ \A i \in 1..Len(page) : page[i].id \in matching /\ page[i] = books[page[i].id]
  /\ \A i, j \in 1..Len(page) : i < j => /\ page[i].id # page[j].id
                                          /\ page[i].created_at >= page[j].created_at

\* C24 -- Whatever the store holds, a list request with any filters, limit
\* and offset is answered with total = the number of stored books matching
\* the filters and with a page of at most limit matching books, newest
\* first, that starts at offset; has_more is true exactly when offset + page
\* length < total, and then a matching book is left outside the page. The
\* public list is the list of the live books in stock.
C24_ListPagination ==
  \A status \in ListStatusParams, in_stock \in ListStockParams,
     limit \in ListLimits, offset \in ListOffsets :
    LET data == adminListBooks(status, in_stock, limit, offset).data
        matching == C24_Matching(status, in_stock)
        public == listPublicBooks(limit, offset).data
    IN /\ data.total = Cardinality(matching)
       /\ C24_PageOf(data.books, matching)
       /\ Len(data.books) <= limit \/ Len(data.books) = 0
       /\ (offset >= 0 /\ limit >= 0)
          => Len(data.books) = Min(limit, IF offset > data.total THEN 0 ELSE data.total - offset)
       /\ data.has_more <=> (offset + Len(data.books) < data.total)
       /\ data.has_more => Len(data.books) < data.total
       /\ public.total = Cardinality(C24_Matching("live", "true"))
       /\ C24_PageOf(public.books, C24_Matching("live", "true"))
       /\ Len(public.books) <= limit \/ Len(public.books) = 0
       /\ public.has_more <=> (offset + Len(public.books) < public.total)
       /\ public.has_more => Len(public.books) < public.total

\* the q and limit parameters of the search requests: q missing, blank, a
\* word of a stored book, a word of none, and a hyphenated word
SearchParams == {None, "", "  ", "moonstone", "penguin", "zebra", "sci-fi"}
SearchLimits == {0 - 1, 1, 20}

\* no live in-stock book holds a word of the query
C25_NoMatch(q) ==
  \A k \in DOMAIN books :
    (books[k].status = "live" /\ books[k].in_stock)
    => \A i \in 1..Len(tokens(q)) :
         \A j \in 1..Len(ftsTokens(fts[k])) : ftsTokens(fts[k])[j] # tokens(q)[i]

\* C25 -- Whatever the store holds, a search with q missing or blank is
\* answered 400 whatever is stored; a search whose query matches no live
\* in-stock book is answered 200 with no results and total 0; every 200
\* answer has total = the number of results, at most limit of them, in
\* ascending order of the relevance score.
C25_SearchAnswers ==
  \A q \in SearchParams, limit \in SearchLimits :
    LET resp == searchBooks(q, limit)
    IN IF q = None \/ trimEnd(trimStart(q)) = ""
       THEN resp = Response(400, "Search query is required", Null)
       ELSE /\ C25_NoMatch(q)
               => /\ resp.status = 200
                  /\ resp.data.results = << >>
                  /\ resp.data.total = 0
            /\ resp.status = 200
               => /\ resp.data.total = Len(resp.data.results)
                  /\ resp.data.total <= limit \/ resp.data.total = 0
                  /\ \A i, j \in 1..Len(resp.data.results) :
                       i < j => bm25(q, fts[resp.data.results[i].id])
                                  <= bm25(q, fts[resp.data.results[j].id])

\* how many characters of s are digits or the letter X in either case
C26_KeptCount(s) ==
  Cardinality({i \in 1..Len(s) :
                 CharAt(s, i) \in {"0", "1", "2", "3", "4", "5", "6", "7", "8", "9", "X", "x"}})

\* C26 -- isValidISBN(s) is true exactly when s holds 10 or 13 characters
\* that are digits or X in either case, whatever the other characters and
\* whatever the check digit; normalizeISBN(s) has that many characters, and
\* normalizing its result again returns it unchanged.
C26_ValidIsTenOrThirteen ==
  /\ (call.fn = "isValidISBN" /\ call.ret # Null)
     => (call.ret.value <=> C26_KeptCount(call.arg) \in {10, 13})
  /\ (call.fn = "normalizeISBN" /\ call.ret # Null)
     => /\ Len(call.ret.value) = C26_KeptCount(call.arg)
        /\ normalizeISBN(call.ret.value) = call.ret.value

\* a labelled 13-digit identifier with a wrong check digit has been found
\* valid
C26_Witness ==
  /\ call.fn = "isValidISBN" /\ call.ret # Null
  /\ call.arg = "ISBN 9780306406158" /\ call.ret.value

\* the values the spec allows for status and condition
C27_Statuses == {"draft", "pending_review", "live", "sold", "removed"}
C27_Conditions == {"like_new", "very_good", "good", "acceptable"}

\* C27 -- After every step every stored book has a status of the workflow
\* and a condition of the enumeration; no step of an ingestion whose
\* condition is outside the enumeration, and no step of a generic update
\* whose status is outside the workflow, changes table, index or bucket, and
\* neither request is answered with a success.
C27_EnumsEnforced ==
  [][/\ \A id \in DOMAIN books' :
          /\ books'[id].status \in C27_Statuses
          /\ books'[id].condition \in C27_Conditions
     /\ \A r \in Reqs :
          (/\ req'[r] # req[r]
           /\ \/ req'[r].kind = "ingest" /\ req'[r].body.condition \notin C27_Conditions
              \/ /\ req'[r].kind = "update" /\ "status" \in DOMAIN req'[r].body
                 /\ req'[r].body.status \notin C27_Statuses)
          => /\ UNCHANGED <<books, fts, assets>>
             /\ req'[r].pc = "done" => req'[r].resp.status \notin {200, 201}]_vars

\* with a book stored, an ingestion of another identifier with a condition
\* outside the enumeration got as far as the INSERT and was answered 500
C27_Witness ==
  \E r \in Reqs :
    /\ req[r].kind = "ingest" /\ req[r].pc = "done" /\ req[r].resp.status = 500
    /\ req[r].body.condition = "poor" /\ req[r].gbOut = "data"
    /\ Cardinality(DOMAIN books) = 1
    /\ \A id \in DOMAIN books : books[id].isbn # req[r].body.isbn

\* C28 -- The categories of the merged metadata, when there are any, are at
\* most 5, whether they come from Google Books' categories or from Open
\* Library's subjects.
C28_CategoriesCapped ==
  (call.fn = "mergeMetadata" /\ call.ret # Null /\ call.ret.metadata.categories # NoList)
  => Len(call.ret.metadata.categories) <= 5

\* the extensions a cover is stored under
C29_Extensions == {".jpg", ".png", ".gif", ".webp", ".pdf"}

\* C29 -- Once the cover transfer of an ingestion has stored the image, the
\* bucket holds it under covers/<id><ext>, the URL the transfer returned is
\* /assets/covers/<id><ext>, and a GET of that URL is answered 200 with the
\* stored object.
C29_CoverRoundTrip ==
  \A r \in Reqs :
    (req[r].kind = "ingest" /\ req[r].upload = "stored")
    => \E ext \in C29_Extensions :
         LET key == "covers/" \o ToString(req[r].bookId) \o ext
         IN /\ key \in assets
            /\ req[r].upd.cover_url = "/assets/" \o key
            /\ getAsset(req[r].upd.cover_url) = Response(200, None, [object |-> key])

\* the custom value when the request gives a non-empty one, else the merged
C30_Final(custom, mergedValue) == IF custom \notin {None, ""} THEN custom ELSE mergedValue

\* C30 -- The book of an ingestion answered 201, as stored and as returned,
\* has the request's custom_title (custom_author) as its title (author) when
\* that is given and not empty and the merged value otherwise, and the
\* enrichment worked on the same title and author: the record it falls back
\* to when its heuristics throw is "<title> by <author>" of these.
C30_CustomOverrides ==
  \A r \in Reqs :
    (IngestDone(r) /\ req[r].resp.status = 201)
    => LET merged == mergeMetadata(fetchMetadata(r).metadata)
           title == C30_Final(req[r].body.custom_title, merged.title)
           author == C30_Final(req[r].body.custom_author, merged.author)
           stored == books[req[r].bookId]
           returned == req[r].resp.data.book
       IN /\ stored.title = title /\ stored.author = author
          /\ returned.title = title /\ returned.author = author
          /\ req[r].enrich = "threw"
             => /\ stored.ai_enrichment.vibe_keywords = title \o " by " \o author
                /\ returned.ai_enrichment.vibe_keywords = title \o " by " \o author

\* an ingestion with a custom title and an empty custom author, for which
\* both providers had data and the heuristics threw, has been answered 201
\* with the custom title and Google Books' authors
C30_Witness ==
  \E r \in Reqs :
    /\ IngestDone(r) /\ req[r].resp.status = 201
    /\ req[r].body.custom_title = "My Title" /\ req[r].body.custom_author = ""
    /\ req[r].olOut = "data" /\ req[r].gbOut = "data" /\ req[r].enrich = "threw"
    /\ books[req[r].bookId].title = "My Title"
    /\ books[req[r].bookId].author = "W. Collins, S. Kemp"
    /\ books[req[r].bookId].vibe_tags = "My Title by W. Collins, S. Kemp"

\* C31 -- In every step of an ingestion: the table gains a row only in the
\* INSERT step, exactly one, under the id the request keeps from then on;
\* the bucket gains an object only for a request that has created its row;
\* and the request is answered 201 exactly when it has created a row, the
\* book_id of the answer being that row's id, and with 400, 404, 409 or 500
\* otherwise.
C31_CreatedIffSuccess ==
  [][\A r \in Reqs :
       (req'[r] # req[r] /\ req'[r].kind = "ingest")
       => /\ DOMAIN books \subseteq DOMAIN books'
          /\ DOMAIN books' # DOMAIN books
             => /\ req[r].pc = "create" /\ req[r].bookId = NoId
                /\ req'[r].bookId \notin DOMAIN books
                /\ DOMAIN books' = DOMAIN books \cup {req'[r].bookId}
          /\ (req[r].pc # "create" /\ ~Free(r)) => req'[r].bookId = req[r].bookId
          /\ (req'[r].bookId # NoId) => req'[r].bookId \in DOMAIN books'
          /\ assets' # assets => req[r].bookId \in DOMAIN books
          /\ req'[r].pc = "done"
             => /\ req'[r].resp.status \in {201, 400, 404, 409, 500}
                /\ (req'[r].resp.status = 201) <=> (req'[r].bookId # NoId)
                /\ req'[r].resp.status = 201
                   => req'[r].resp.data.book_id = req'[r].bookId]_vars

\* with one book and its cover stored, an ingestion of another identifier
\* was refused by the table and answered 500 without a row or an object of
\* its own
C31_Witness ==
  \E r \in Reqs :
    /\ IngestDone(r) /\ req[r].resp.status = 500 /\ req[r].bookId = NoId
    /\ DOMAIN books = {1} /\ books[1].isbn # req[r].body.isbn
    /\ assets = {"covers/1.jpg"}

\* C32 -- In every state at most one stored book has a given isbn string,
\* also when ingestions of that string run concurrently and each passes the
\* duplicate check before any of them writes.
C32_OneBookPerIsbnString ==
  \A a, b \in DOMAIN books : books[a].isbn = books[b].isbn => a = b

\* two ingestions of one identifier string were under way together past
\* their duplicate checks; one has created the book, the other was refused
\* by the table
C32_Witness ==
  \E r, q \in Reqs :
    /\ r # q
    /\ req[r].kind = "ingest" /\ req[q].kind = "ingest"
    /\ req[r].body.isbn = req[q].body.isbn
    /\ req[r].bookId \in DOMAIN books /\ req[r].pc = "upload"
    /\ req[q].pc = "done" /\ req[q].read /\ req[q].gbOut = "data"
    /\ req[q].bookId = NoId /\ req[q].resp.status # 409
    /\ Cardinality(storedAs(req[r].body.isbn)) = 1

\* C33 -- An ingestion that passed the validation, for which a provider had
\* data, and that created no book because a book with its identifier string
\* is stored, was answered 409, never 500, also when that book was inserted
\* by a concurrent request after this request's duplicate check.
C33_DuplicateIsAlways409 ==
  \A r \in Reqs :
    (/\ IngestDone(r) /\ req[r].bookId = NoId
     /\ req[r].resp.status \notin {400, 404}
     /\ storedAs(req[r].body.isbn) # {})
    => req[r].resp.status = 409

\* C34 -- Among the approve requests of one book that was pending review,
\* at most one is answered with success, also when they run concurrently
\* and each reads the book before any of them writes; the price and the
\* edits of the stored book are those of that one approve.
C34_OneApproveSucceeds ==
  \A id \in DOMAIN books :
    LET succeeded == {r \in Reqs : /\ req[r].kind = "approve" /\ req[r].pc = "done"
                                   /\ req[r].bookId = id /\ req[r].resp.status = 200}
    IN /\ Cardinality(succeeded) <= 1
       /\ \A r \in succeeded :
            \A f \in DOMAIN req[r].upd : books[id][f] = req[r].upd[f]

\* the steps an ingestion may take from each of its positions
IngestOrder ==
  [idle |-> {"fetch", "done"}, done |-> {"fetch", "done"},
   fetch |-> {"fetch", "create", "done"}, create |-> {"upload", "done"},
   upload |-> {"upd_get", "done"}, upd_get |-> {"upd_write", "done"},
   upd_write |-> {"upd_ret", "done"}, upd_ret |-> {"done"}]

C36_CoverUpdateFrame ==
  [][\A r \in Reqs :
       (WriteStep(r, "ingest") /\ req'[r].pc = "upd_ret")
       => LET id == req[r].bookId
          IN /\ DOMAIN req[r].upd = {"cover_url"}
             /\ books' = [books EXCEPT ![id] =
                            [books[id] EXCEPT !.cover_url = req[r].upd.cover_url,
                                              !.updated_at = req[r].now]]]_vars

\* the cover update was written after an approve with edits of the same
\* book had written and read the row back: the row is live, holds the edits
\* and the new cover, the approve was answered with the former cover
C36_Witness ==
  \E r, q \in Reqs :
    /\ req[r].kind = "ingest" /\ req[r].pc = "upd_ret"
    /\ req[q].kind = "approve" /\ req[q].pc = "done" /\ req[q].resp.status = 200
    /\ req[q].bookId = req[r].bookId
    /\ LET row == books[req[r].bookId]
       IN /\ row.status = "live" /\ row.title = "Edited Title"
          /\ row.vibe_tags = "edited tags"
          /\ row.cover_url = req[r].upd.cover_url
          /\ req[q].resp.data.book.cover_url = req[r].book.cover_url
          /\ req[q].resp.data.book.cover_url # row.cover_url
          /\ req[r].book.status = "pending_review"
          /\ req[r].book.title # "Edited Title"

\* the conditions from the best to the worst
conditionOrder == <<"like_new", "very_good", "good", "acceptable">>

\* C37 -- For every cost price c >= 1 the suggested price is strictly
\* greater than c (also than c taken in major units, 100 c); for a fixed c
\* it does not increase along like_new, very_good, good, acceptable; for a
\* fixed condition it does not decrease when c grows; a condition outside
\* the four is priced with the multiplier 1.0.
C37_PriceMonotone ==
  (call.fn = "calculateSuggestedPrice" /\ call.ret # Null)
  => LET c == call.arg.costPrice
         k == call.arg.condition
         p == call.ret.value
     IN /\ c >= 1 /\ p > c /\ p > 100 * c
        /\ \A i, j \in 1..Len(conditionOrder) :
             (i <= j /\ conditionOrder[i] = k)
             => p >= calculateSuggestedPrice(c, conditionOrder[j])
        /\ calculateSuggestedPrice(c + 1, k) >= p
        /\ (k \notin Conditions)
           => (p = 100 * (BaseMarkup * c) - 1 /\ p = calculateSuggestedPrice(c, "good"))

\* the price of a very good copy of cost 30, which the double product
\* pushes one unit up, stays below the like-new price
C37_Witness ==
  /\ call.fn = "calculateSuggestedPrice" /\ call.ret # Null
  /\ call.arg = [costPrice |-> 30, condition |-> "very_good"]
  /\ call.ret.value = 9999
  /\ calculateSuggestedPrice(30, "like_new") = 10799

\* the list keywords that occur in the description, whatever the case
keywordsIn(description) ==
  {kw \in {shockKeywords[i] : i \in 1..Len(shockKeywords)} :
     \E i \in 1..Len(description) :
       \E j \in i..Len(description) : toLowerCase(SubSeq(description, i, j)) = kw}

\* C38 -- The intensity score is min(10, 5 + n), n the number of distinct
\* keywords of the eight-keyword list that occur in the description in any
\* case; it is 5 without a description and always within 1..10. The pace
\* is slow_burn whenever a slow cue occurs, also beside a fast cue.
C38_ShockAndPace ==
  /\ (call.fn = "calculateShockFactor" /\ call.ret # Null)
     => LET n == IF call.arg = None THEN 0 ELSE Cardinality(keywordsIn(call.arg))
        IN /\ call.ret.value = Min(10, 5 + n)
           /\ call.ret.value \in 1..10
           /\ (call.arg = None) => (call.ret.value = 5)
  /\ (call.fn = "inferPace" /\ call.ret # Null /\ call.arg # None)
     => LET slow == \E cue \in {"slow", "meditative"} :
                      \E i \in 1..Len(call.arg) : \E j \in i..Len(call.arg) :
                        toLowerCase(SubSeq(call.arg, i, j)) = cue
        IN slow => (call.ret.value = "slow_burn")

\* a description in capitals with one keyword twice was scored
C38_Witness ==
  /\ call.fn = "calculateShockFactor" /\ call.ret # Null
  /\ call.arg = "shocking and shocking, a DISTURBING tale"
  /\ call.ret.value = 7

\* a description with a slow and a fast cue was labelled
C38_WitnessPace ==
  /\ call.fn = "inferPace" /\ call.ret # Null
  /\ call.arg = "Slowly told, a THRILLER"
  /\ call.ret.value = "slow_burn"

====
